---- MODULE Spec2Model ----
(***************************************************************************)
(* LCBLog: asynchronous logger with two destination queues, two worker     *)
(* threads and a destructor that drains and joins them.                    *)
(*                                                                         *)
(* Sources: lcblog.cpp (constructor, destructor, workerLoop, setters,      *)
(* shouldLog), the asynchronous lcblog.tpp (unnamed/part_001: log, logS,   *)
(* logE) and lcblog.hpp (unnamed/part_002: LogEntry, LogLevel, members).   *)
(***************************************************************************)
EXTENDS Integers, Sequences, FiniteSets, TLC

(***************************************************************************)
(* Bounds of the model.  The two sizes are the members maxQueueSize_       *)
(* (1024) and batchSize_ (16) of lcblog.hpp, scaled down so that overflow  *)
(* and multi-batch draining happen within a few calls.                     *)
(***************************************************************************)
MaxCalls == 3

MaxSets == 1

MaxApiCalls == 2

MaxCfgCalls == 2

MaxLineLen == 5

MaxPairLen == 3

MaxArgs == 4

maxQueueSize_ == 2

batchSize_ == 1

(***************************************************************************)
(* enum LogLevel { DEBUG = 0, INFO, WARN, ERROR, FATAL }                   *)
(***************************************************************************)
DEBUG == 0

INFO == 1

WARN == 2

ERROR == 3

FATAL == 4

LogLevel == DEBUG..FATAL

\* enum LogEntry::Destination { Out, Err }
Destination == {"Out", "Err"}

\* The streams of the process: std::cout, std::cerr and two streams that an
\* embedding application may pass to the constructor instead.
Streams == {"cout", "cerr", "fileOut", "fileErr"}

\* The application threads that call log / logS / logE.
Producers == {"p1", "p2"}

VARIABLES
    logLevel,         \* LCBLog::logLevel, the threshold
    printTimestamps,  \* LCBLog::printTimestamps
    out,              \* LCBLog::out, the stream bound as outStream
    err,              \* LCBLog::err, the stream bound as errStream
    wstream,          \* the stream each worker thread was started with
    unitbuf,          \* the streams whose unitbuf flag is set
    queue,            \* outQueue_ / errQueue_
    mtx,              \* outMtx_ / errMtx_: "free" or the holding thread
    notified,         \* outCv_ / errCv_: a notification reached the sleeping worker
    done_,            \* LCBLog::done_
    wpc,              \* position of each worker in workerLoop
    batch,            \* workerLoop's local batch
    sink,             \* what has been inserted into each stream, in order
    flushed,          \* how much of each stream has been flushed
    dpc,              \* position of the thread running ~LCBLog
    quiet,            \* ghost: no log call was in progress when ~LCBLog began
    ppc,              \* position of each producer in its log call
    plocal,           \* the producer's arguments and locals (api, level, entry)
    ncalls,           \* ghost: number of log calls begun; a call's id is its rank
    verdict,          \* ghost: per call id, the level, the threshold read, the answer
    enq,              \* ghost: ids appended to each queue, in push_back order
    evicted,          \* ghost: per queue, entries removed by the overflow pop_front
    sets,             \* number of setter calls that have returned
    logMutex,         \* LCBLog::logMutex: "free" or the holding thread
    setter,           \* the thread inside a setter: its call and position
    lastSet,          \* ghost: the arguments of the last setters that returned
    began,            \* ghost: per call id, the configuration in force when it began
    call,             \* logToStream: the arguments level and t, args...
    stream,           \* logToStream: the text inserted into its stream
    line,             \* crush: the string s it rewrites in place
    crushed,          \* ghost: the results of the successive crush calls
    clock,            \* what the successive getStamp() calls of logToStream return
    fdone,            \* ghost: logToStream has returned
    skip,             \* ghost: what the calls of shouldSkipSpace on its own returned
    stampedAt         \* ghost: per call id, the clock's reading at its getStamp()

vars == <<logLevel, printTimestamps, out, err, wstream, unitbuf, queue, mtx,
          notified, done_, wpc, batch, sink, flushed, dpc, quiet, ppc, plocal,
          ncalls, verdict, enq, evicted, sets, logMutex, setter, lastSet, began,
          call, stream, line, crushed, clock, fdone, skip, stampedAt>>

cfgVars == <<logLevel, printTimestamps, sets, logMutex, setter, lastSet>>

bindVars == <<out, err, wstream, unitbuf>>

workerVars == <<wpc, batch>>

sinkVars == <<sink, flushed>>

dtorVars == <<dpc, quiet>>

prodVars == <<ppc, plocal, ncalls, verdict, enq, evicted, began>>

fmtVars == <<call, stream, line, crushed, clock, fdone, skip, stampedAt>>

\* A record's text is kept as what determines it: the call it came from, the
\* level tag, and whether the lines carry a timestamp.  via is a ghost field:
\* the entry point the call was made through.
NoEntry ==
    [dest |-> "Out",
     msg |-> [id |-> 0, level |-> 0, stamped |-> FALSE, via |-> "log"]]

NoVerdict == [level |-> 0, thr |-> 0, res |-> "none"]

NoLocal == [api |-> "log", level |-> 0, entry |-> NoEntry, id |-> 0]

\* no thread is inside a setter
NoSetter == [op |-> "none", arg |-> 0]

\* the configuration the constructor installs: logLevel(INFO), printTimestamps = false
DefaultCfg == [level |-> INFO, ts |-> FALSE]

NoBegan == [cfg |-> DefaultCfg, steady |-> TRUE]

\* no call of logToStream or crush has been made
NoCall == [level |-> INFO, args |-> <<>>]

\* no log call has read the clock; the clock's readings are 1, 2, ...
NoStamps == [i \in 1..MaxCalls |-> 0]

(***************************************************************************)
(* Pure helpers                                                            *)
(***************************************************************************)

\* Variant: a message at the threshold itself is filtered out.
shouldLogStrict(level, threshold) == level > threshold

\* bool LCBLog::shouldLog(LogLevel level) const { return level >= logLevel; }
shouldLog(level, threshold) == level >= threshold

\* Variant: ERROR itself is routed to the standard queue.
destOfAboveError(level) == IF level > ERROR THEN "Err" ELSE "Out"

\* entry->dest = (level >= LogLevel::ERROR ? LogEntry::Err : LogEntry::Out)
destOf(level) == IF level >= ERROR THEN "Err" ELSE "Out"

\* The stream a worker is started with in the constructor:
\* std::ref(std::cout) for the outQueue_ worker, std::ref(std::cerr) for the
\* errQueue_ worker; the constructor's arguments are not used here.
workerStream(d, outStream, errStream) == IF d = "Out" THEN "cout" ELSE "cerr"

\* Variant: the entry is added with push_front instead of push_back.
pushBoundedFront(q, e) ==
    IF Len(q) >= maxQueueSize_ THEN <<e>> \o Tail(q) ELSE <<e>> \o q

\* Variant: a full queue rejects the new entry instead of dropping the oldest.
pushBoundedDropNewest(q, e) ==
    IF Len(q) >= maxQueueSize_ THEN q ELSE Append(q, e)

\* Variant: the capacity test is > instead of >=.
pushBoundedOffByOne(q, e) ==
    IF Len(q) > maxQueueSize_ THEN Append(Tail(q), e) ELSE Append(q, e)

\* if (queue.size() >= maxQueueSize_) queue.pop_front(); queue.push_back(entry)
pushBounded(q, e) ==
    IF Len(q) >= maxQueueSize_ THEN Append(Tail(q), e) ELSE Append(q, e)

Min(a, b) == IF a <= b THEN a ELSE b

\* Variant: the move loop runs until the queue is empty.
takeAll(q, b) == Len(q)

\* while (!queue.empty() && batch.size() < batchSize_) { move front; pop_front }
takeCount(q, b) == Min(Len(q), batchSize_ - Len(b))

msgsOf(q) == [i \in 1..Len(q) |-> q[i].msg]

\* Variant: the worker never flushes by itself.
flushedAfterUnitbufOnly(s, newLen, doFlush) ==
    IF s \in unitbuf THEN newLen ELSE flushed[s]

\* stream << msg for each msg; a stream with unitbuf set flushes on every insertion
flushedAfter(s, newLen, doFlush) ==
    IF doFlush \/ s \in unitbuf THEN newLen ELSE flushed[s]

(***************************************************************************)
(* LCBLog::LCBLog(outStream, errStream): the state when the constructor    *)
(* has returned.  logLevel(INFO), out(outStream), err(errStream); unitbuf  *)
(* is set on out and err (std::cerr has it set from the start); both       *)
(* workers are started.                                                    *)
(***************************************************************************)
Constructed(outStream, errStream) ==
    /\ logLevel = INFO
    /\ printTimestamps = FALSE
    /\ out = outStream
    /\ err = errStream
    /\ wstream = [d \in Destination |-> workerStream(d, outStream, errStream)]
    /\ unitbuf = {outStream, errStream, "cerr"}
    /\ queue = [d \in Destination |-> <<>>]
    /\ mtx = [d \in Destination |-> "free"]
    /\ notified = [d \in Destination |-> FALSE]
    /\ done_ = FALSE
    /\ wpc = [d \in Destination |-> "test"]
    /\ batch = [d \in Destination |-> <<>>]
    /\ sink = [s \in Streams |-> <<>>]
    /\ flushed = [s \in Streams |-> 0]
    /\ dpc = "alive"
    /\ quiet = FALSE
    /\ ppc = [p \in Producers |-> "idle"]
    /\ plocal = [p \in Producers |-> NoLocal]
    /\ ncalls = 0
    /\ verdict = [i \in 1..MaxCalls |-> NoVerdict]
    /\ enq = [d \in Destination |-> <<>>]
    /\ evicted = [d \in Destination |-> 0]
    /\ sets = 0
    /\ logMutex = "free"
    /\ setter = NoSetter
    /\ lastSet = DefaultCfg
    /\ began = [i \in 1..MaxCalls |-> NoBegan]

\* The formatting functions have not been called on their own.
FmtIdle ==
    /\ call = NoCall
    /\ stream = <<>>
    /\ line = <<>>
    /\ crushed = <<>>
    /\ clock = <<>>
    /\ fdone = FALSE
    /\ skip = <<>>
    /\ stampedAt = NoStamps

\* LCBLog llog(std::cout, std::cerr);  (also the header's default arguments)
Init == Constructed("cout", "cerr") /\ FmtIdle

\* A logger constructed on streams of the embedding application's choice.
InitBound ==
    /\ \E b \in {<<"cout", "cerr">>, <<"fileOut", "fileErr">>} :
          Constructed(b[1], b[2])
    /\ FmtIdle

(***************************************************************************)
(* Configuration setters (lcblog.cpp).  Each takes logMutex for the        *)
(* duration of the single assignment; no other code of the asynchronous    *)
(* revision takes logMutex, so the locked assignment is one step.          *)
(***************************************************************************)

\* void LCBLog::setLogLevel(LogLevel level)
setLogLevel(level) ==
    /\ dpc = "alive"
    /\ sets < MaxSets
    /\ logMutex = "free"
    /\ logLevel' = level
    /\ lastSet' = [lastSet EXCEPT !.level = level]
    /\ sets' = sets + 1
    /\ UNCHANGED <<printTimestamps, logMutex, setter, fmtVars, bindVars, queue, mtx, notified, done_,
                   workerVars, sinkVars, dtorVars, prodVars>>

\* Variant: the new flag is also applied to the entries waiting in the queues.
enableTimestampsRestamp(enable) ==
    /\ dpc = "alive"
    /\ sets < MaxSets
    /\ logMutex = "free"
    /\ printTimestamps' = enable
    /\ lastSet' = [lastSet EXCEPT !.ts = enable]
    /\ sets' = sets + 1
    /\ queue' = [d \in Destination |->
                   [k \in 1..Len(queue[d]) |->
                       [queue[d][k] EXCEPT !.msg.stamped = enable]]]
    /\ UNCHANGED <<logLevel, logMutex, setter, fmtVars, bindVars, mtx, notified,
                   done_, workerVars, sinkVars, dtorVars, prodVars>>

\* void LCBLog::enableTimestamps(bool enable)
enableTimestamps(enable) ==
    /\ dpc = "alive"
    /\ sets < MaxSets
    /\ logMutex = "free"
    /\ printTimestamps' = enable
    /\ lastSet' = [lastSet EXCEPT !.ts = enable]
    /\ sets' = sets + 1
    /\ UNCHANGED <<logLevel, logMutex, setter, fmtVars, bindVars, queue, mtx, notified, done_,
                   workerVars, sinkVars, dtorVars, prodVars>>

\* The two steps of a setter seen by the other threads.  First
\* std::lock_guard<std::mutex> lock(logMutex): the calling thread acquires
\* logMutex; op and arg are the setter called and its argument.
SetterLock(op, arg) ==
    /\ dpc = "alive"
    /\ sets < MaxSets
    /\ setter.op = "none"
    /\ logMutex = "free"
    /\ logMutex' = "setter"
    /\ setter' = [op |-> op, arg |-> arg]
    /\ UNCHANGED <<logLevel, printTimestamps, sets, lastSet, fmtVars, bindVars,
                   queue, mtx, notified, done_, workerVars, sinkVars, dtorVars,
                   prodVars>>

\* Then logLevel = level; or printTimestamps = enable; the lock_guard's scope
\* ends, logMutex is released and the setter returns.
SetterAssign ==
    /\ setter.op # "none"
    /\ logMutex = "setter"
    /\ IF setter.op = "setLogLevel"
          THEN /\ logLevel' = setter.arg
               /\ lastSet' = [lastSet EXCEPT !.level = setter.arg]
               /\ UNCHANGED printTimestamps
          ELSE /\ printTimestamps' = setter.arg
               /\ lastSet' = [lastSet EXCEPT !.ts = setter.arg]
               /\ UNCHANGED logLevel
    /\ logMutex' = "free"
    /\ setter' = NoSetter
    /\ sets' = sets + 1
    /\ UNCHANGED <<fmtVars, bindVars, queue, mtx, notified, done_, workerVars,
                   sinkVars, dtorVars, prodVars>>

(***************************************************************************)
(* A log call (lcblog.tpp, asynchronous revision).  logS and logE forward  *)
(* their arguments to log(level, ...) unchanged.                           *)
(***************************************************************************)

\* Entry into log and its first statement: if (!shouldLog(level)) return;
\* The call is numbered; a call that is filtered out returns at once.
Enter(p, api, level) ==
    /\ dpc = "alive"
    /\ ppc[p] = "idle"
    /\ ncalls < MaxCalls
    /\ ncalls' = ncalls + 1
    /\ began' = [began EXCEPT ![ncalls + 1] = [cfg |-> lastSet, steady |-> TRUE]]
    /\ IF shouldLog(level, logLevel)
          THEN /\ ppc' = [ppc EXCEPT ![p] = "format"]
               /\ plocal' = [plocal EXCEPT ![p] =
                               [api |-> api, level |-> level, entry |-> NoEntry,
                                id |-> ncalls + 1]]
               /\ verdict' = [verdict EXCEPT ![ncalls + 1] =
                                [level |-> level, thr |-> logLevel, res |-> "pass"]]
          ELSE /\ UNCHANGED <<ppc, plocal>>
               /\ verdict' = [verdict EXCEPT ![ncalls + 1] =
                                [level |-> level, thr |-> logLevel, res |-> "skip"]]
    /\ UNCHANGED <<cfgVars, fmtVars, bindVars, queue, mtx, notified, done_, workerVars,
                   sinkVars, dtorVars, enq, evicted>>

\* template<typename... Args> void LCBLog::log(LogLevel level, Args&&... args)
log(p, level) == Enter(p, "log", level)

\* LCBLog::logS: log(level, std::forward<T>(t), std::forward<Args>(args)...);
logS(p, level) == Enter(p, "logS", level)

\* LCBLog::logE: log(level, std::forward<T>(t), std::forward<Args>(args)...);
logE(p, level) == Enter(p, "logE", level)

\* logToStream(oss, level, args...); entry->msg = oss.str(); entry->dest = ...
Format(p) ==
    /\ ppc[p] = "format"
    /\ plocal' = [plocal EXCEPT ![p].entry =
                    [dest |-> destOf(plocal[p].level),
                     msg |-> [id |-> plocal[p].id, level |-> plocal[p].level,
                              stamped |-> printTimestamps,
                              via |-> plocal[p].api]]]
    /\ began' = [began EXCEPT ![plocal[p].id].steady =
                                lastSet = began[plocal[p].id].cfg]
    /\ ppc' = [ppc EXCEPT ![p] = "lock"]
    /\ UNCHANGED <<cfgVars, fmtVars, bindVars, queue, mtx, notified, done_, workerVars,
                   sinkVars, dtorVars, ncalls, verdict, enq, evicted>>

\* the latest reading of the clock that a log call has taken
lastReading ==
    CHOOSE t \in {stampedAt[i] : i \in 1..MaxCalls} :
        \A i \in 1..MaxCalls : stampedAt[i] <= t

\* Format(p) with the clock made visible: when printTimestamps is set,
\* getStamp() reads system_clock::now(), which has advanced by tick
\* milliseconds since the reading before
FormatAt(p, tick) ==
    /\ ppc[p] = "format"
    /\ plocal' = [plocal EXCEPT ![p].entry =
                    [dest |-> destOf(plocal[p].level),
                     msg |-> [id |-> plocal[p].id, level |-> plocal[p].level,
                              stamped |-> printTimestamps,
                              via |-> plocal[p].api]]]
    /\ began' = [began EXCEPT ![plocal[p].id].steady =
                                lastSet = began[plocal[p].id].cfg]
    /\ stampedAt' = IF printTimestamps
                       THEN [stampedAt EXCEPT ![plocal[p].id] =
                               (IF lastReading = 0 THEN 1 ELSE lastReading) + tick]
                       ELSE stampedAt
    /\ ppc' = [ppc EXCEPT ![p] = "lock"]
    /\ UNCHANGED <<cfgVars, call, stream, line, crushed, clock, fdone, skip,
                   bindVars, queue, mtx, notified, done_, workerVars, sinkVars,
                   dtorVars, ncalls, verdict, enq, evicted>>

\* Variant: the producer locks the mutexes of both queues.
LockBoth(p) ==
    /\ ppc[p] = "lock"
    /\ \A d \in Destination : mtx[d] = "free"
    /\ mtx' = [d \in Destination |-> p]
    /\ ppc' = [ppc EXCEPT ![p] = "push"]
    /\ UNCHANGED <<cfgVars, fmtVars, bindVars, queue, notified, done_, workerVars,
                   sinkVars, dtorVars, plocal, ncalls, verdict, enq, evicted,
                   began>>

\* std::lock_guard<std::mutex> lock(mtx);
Lock(p) ==
    /\ ppc[p] = "lock"
    /\ mtx[plocal[p].entry.dest] = "free"
    /\ mtx' = [mtx EXCEPT ![plocal[p].entry.dest] = p]
    /\ ppc' = [ppc EXCEPT ![p] = "push"]
    /\ UNCHANGED <<cfgVars, fmtVars, bindVars, queue, notified, done_, workerVars,
                   sinkVars, dtorVars, plocal, ncalls, verdict, enq, evicted,
                   began>>

\* Variant: at capacity the oldest entry of the other queue is dropped.
PushEvictOther(p) ==
    LET d == plocal[p].entry.dest
        o == CHOOSE x \in Destination : x # d
        full == Len(queue[d]) >= maxQueueSize_
    IN
    /\ ppc[p] = "push"
    /\ mtx[d] = p
    /\ queue' = [queue EXCEPT
                    ![d] = Append(queue[d], plocal[p].entry),
                    ![o] = IF full /\ queue[o] # <<>> THEN Tail(queue[o])
                                                      ELSE queue[o]]
    /\ enq' = [enq EXCEPT ![d] = Append(enq[d], plocal[p].entry.msg.id)]
    /\ evicted' = [evicted EXCEPT
                      ![o] = IF full /\ queue[o] # <<>> THEN evicted[o] + 1
                                                        ELSE evicted[o]]
    /\ mtx' = [mtx EXCEPT ![d] = "free"]
    /\ notified' = [notified EXCEPT ![d] = (wpc[d] = "sleep") \/ notified[d]]
    /\ ppc' = [ppc EXCEPT ![p] = "idle"]
    /\ plocal' = [plocal EXCEPT ![p] = NoLocal]
    /\ UNCHANGED <<cfgVars, fmtVars, bindVars, done_, workerVars, sinkVars, dtorVars,
                   ncalls, verdict, began>>

\* Variant: the entry is pushed and the condition variable is not notified.
PushNoNotify(p) ==
    LET d == plocal[p].entry.dest IN
    /\ ppc[p] = "push"
    /\ mtx[d] = p
    /\ queue' = [queue EXCEPT ![d] = pushBounded(queue[d], plocal[p].entry)]
    /\ enq' = [enq EXCEPT ![d] = Append(enq[d], plocal[p].entry.msg.id)]
    /\ evicted' = [evicted EXCEPT ![d] =
                     evicted[d] + Len(queue[d]) + 1
                        - Len(pushBounded(queue[d], plocal[p].entry))]
    /\ mtx' = [mtx EXCEPT ![d] = "free"]
    /\ ppc' = [ppc EXCEPT ![p] = "idle"]
    /\ plocal' = [plocal EXCEPT ![p] = NoLocal]
    /\ UNCHANGED <<cfgVars, fmtVars, bindVars, notified, done_, workerVars,
                   sinkVars, dtorVars, ncalls, verdict, began>>

\* Inside the lock scope: drop the oldest entry at capacity, push_back.  Then
\* the scope ends and cv.notify_one() follows at once: it wakes the worker if
\* the worker is blocked in wait_for, and is otherwise without effect.
Push(p) ==
    LET d == plocal[p].entry.dest IN
    /\ ppc[p] = "push"
    /\ mtx[d] = p
    /\ queue' = [queue EXCEPT ![d] = pushBounded(queue[d], plocal[p].entry)]
    /\ enq' = [enq EXCEPT ![d] = Append(enq[d], plocal[p].entry.msg.id)]
    /\ evicted' = [evicted EXCEPT ![d] =
                     evicted[d] + Len(queue[d]) + 1
                        - Len(pushBounded(queue[d], plocal[p].entry))]
    /\ mtx' = [mtx EXCEPT ![d] = "free"]
    /\ notified' = [notified EXCEPT ![d] = (wpc[d] = "sleep") \/ notified[d]]
    /\ ppc' = [ppc EXCEPT ![p] = "idle"]
    /\ plocal' = [plocal EXCEPT ![p] = NoLocal]
    /\ UNCHANGED <<cfgVars, fmtVars, bindVars, done_, workerVars, sinkVars, dtorVars,
                   ncalls, verdict, began>>

(***************************************************************************)
(* workerLoop (lcblog.cpp), one instance per destination.                  *)
(***************************************************************************)

\* queue.empty() evaluated in the loop condition without holding mtx: while a
\* producer is inside its push critical section the read races with the
\* modification and may yield either answer.
emptyReads(d) ==
    IF mtx[d] \in Producers THEN BOOLEAN ELSE {queue[d] = <<>>}

\* Variant: the loop is left as soon as the queue is found empty.
TestExitOnEmpty(d) ==
    /\ wpc[d] = "test"
    /\ \E e \in emptyReads(d) :
          wpc' = [wpc EXCEPT ![d] = IF ~e THEN "lock" ELSE "drainlock"]
    /\ UNCHANGED <<cfgVars, fmtVars, bindVars, queue, mtx, notified, done_, batch,
                   sinkVars, dtorVars, prodVars>>

\* while (!done_.load() || !queue.empty())
Test(d) ==
    /\ wpc[d] = "test"
    /\ \E e \in (IF done_ THEN emptyReads(d) ELSE {FALSE}) :
          wpc' = [wpc EXCEPT ![d] = IF ~done_ \/ ~e THEN "lock" ELSE "drainlock"]
    /\ UNCHANGED <<cfgVars, fmtVars, bindVars, queue, mtx, notified, done_, batch,
                   sinkVars, dtorVars, prodVars>>

\* Variant: the queue is cleared after the batch has been filled.
MoveAndClear(d) ==
    LET n == takeCount(queue[d], batch[d]) IN
    /\ batch' = [batch EXCEPT ![d] = batch[d] \o msgsOf(SubSeq(queue[d], 1, n))]
    /\ queue' = [queue EXCEPT ![d] = <<>>]
    /\ mtx' = [mtx EXCEPT ![d] = "free"]
    /\ wpc' = [wpc EXCEPT ![d] = "write"]

\* Variant: the batch is filled from the back of the queue.
MoveFromBack(d) ==
    LET n == takeCount(queue[d], batch[d])
        k == Len(queue[d])
    IN
    /\ batch' = [batch EXCEPT ![d] =
                    batch[d] \o [i \in 1..n |-> queue[d][k + 1 - i].msg]]
    /\ queue' = [queue EXCEPT ![d] = SubSeq(queue[d], 1, k - n)]
    /\ mtx' = [mtx EXCEPT ![d] = "free"]
    /\ wpc' = [wpc EXCEPT ![d] = "write"]

\* Variant: the entries are copied into the batch and stay in the queue.
MoveNoPop(d) ==
    LET n == takeCount(queue[d], batch[d]) IN
    /\ batch' = [batch EXCEPT ![d] = batch[d] \o msgsOf(SubSeq(queue[d], 1, n))]
    /\ queue' = queue
    /\ mtx' = [mtx EXCEPT ![d] = "free"]
    /\ wpc' = [wpc EXCEPT ![d] = "write"]

\* The move loop, run with the lock held, and the end of the lock scope:
\* while (!queue.empty() && batch.size() < batchSize_) { move front; pop_front }
MoveAndUnlock(d) ==
    LET n == takeCount(queue[d], batch[d]) IN
    /\ batch' = [batch EXCEPT ![d] = batch[d] \o msgsOf(SubSeq(queue[d], 1, n))]
    /\ queue' = [queue EXCEPT ![d] = SubSeq(queue[d], n + 1, Len(queue[d]))]
    /\ mtx' = [mtx EXCEPT ![d] = "free"]
    /\ wpc' = [wpc EXCEPT ![d] = "write"]

\* wait_for's predicate, evaluated with the lock held
waitPred(d) == done_ \/ queue[d] # <<>>

\* std::unique_lock lk(mtx); cv.wait_for(lk, flushInterval_, pred): the lock is
\* taken and the predicate evaluated.  If it holds, wait_for returns and the
\* move loop runs; otherwise the thread is about to block, still holding the lock.
WaitFor(d) ==
    /\ wpc[d] = "lock"
    /\ mtx[d] = "free"
    /\ IF waitPred(d)
          THEN /\ MoveAndUnlock(d)
               /\ UNCHANGED notified
          ELSE /\ mtx' = [mtx EXCEPT ![d] = d]
               /\ wpc' = [wpc EXCEPT ![d] = "block"]
               /\ UNCHANGED <<queue, batch, notified>>
    /\ UNCHANGED <<cfgVars, fmtVars, bindVars, done_, sinkVars, dtorVars, prodVars>>

\* wait_for releases the lock and blocks the thread
Block(d) ==
    /\ wpc[d] = "block"
    /\ mtx[d] = d
    /\ mtx' = [mtx EXCEPT ![d] = "free"]
    /\ notified' = [notified EXCEPT ![d] = FALSE]
    /\ wpc' = [wpc EXCEPT ![d] = "sleep"]
    /\ UNCHANGED <<cfgVars, fmtVars, bindVars, queue, done_, batch, sinkVars, dtorVars,
                   prodVars>>

\* a notification wakes the worker: it re-locks and re-evaluates the predicate
Wake(d) ==
    /\ wpc[d] = "sleep"
    /\ notified[d]
    /\ mtx[d] = "free"
    /\ notified' = [notified EXCEPT ![d] = FALSE]
    /\ IF waitPred(d)
          THEN MoveAndUnlock(d)
          ELSE /\ mtx' = [mtx EXCEPT ![d] = d]
               /\ wpc' = [wpc EXCEPT ![d] = "block"]
               /\ UNCHANGED <<queue, batch>>
    /\ UNCHANGED <<cfgVars, fmtVars, bindVars, done_, sinkVars, dtorVars, prodVars>>

\* flushInterval_ elapses: wait_for re-locks and returns whatever the predicate
\* says, and the move loop runs
Timeout(d) ==
    /\ wpc[d] = "sleep"
    /\ mtx[d] = "free"
    /\ notified' = [notified EXCEPT ![d] = FALSE]
    /\ MoveAndUnlock(d)
    /\ UNCHANGED <<cfgVars, fmtVars, bindVars, done_, sinkVars, dtorVars, prodVars>>

\* write the batch to the stream; flush if the batch is full or flushInterval_
\* has elapsed since lastFlush (elapsed: the clock's answer); clear the batch
Write(d, elapsed) ==
    LET s == wstream[d]
        w == sink[s] \o batch[d]
    IN
    /\ wpc[d] = "write"
    /\ sink' = [sink EXCEPT ![s] = w]
    /\ flushed' = [flushed EXCEPT ![s] =
                     flushedAfter(s, Len(w), Len(batch[d]) >= batchSize_ \/ elapsed)]
    /\ batch' = [batch EXCEPT ![d] = <<>>]
    /\ wpc' = [wpc EXCEPT ![d] = "test"]
    /\ UNCHANGED <<cfgVars, fmtVars, bindVars, queue, mtx, notified, done_, dtorVars,
                   prodVars>>

\* std::lock_guard<std::mutex> lk(mtx);  (the drain after the loop)
DrainLock(d) ==
    /\ wpc[d] = "drainlock"
    /\ mtx[d] = "free"
    /\ mtx' = [mtx EXCEPT ![d] = d]
    /\ wpc' = [wpc EXCEPT ![d] = "drain"]
    /\ UNCHANGED <<cfgVars, fmtVars, bindVars, queue, notified, done_, batch, sinkVars,
                   dtorVars, prodVars>>

\* Variant: the drain does not end with a flush.
DrainNoFlush(d) ==
    LET s == wstream[d]
        w == sink[s] \o msgsOf(queue[d])
    IN
    /\ wpc[d] = "drain"
    /\ mtx[d] = d
    /\ sink' = [sink EXCEPT ![s] = w]
    /\ flushed' = [flushed EXCEPT ![s] = flushedAfter(s, Len(w), FALSE)]
    /\ queue' = [queue EXCEPT ![d] = <<>>]
    /\ mtx' = [mtx EXCEPT ![d] = "free"]
    /\ wpc' = [wpc EXCEPT ![d] = "terminated"]
    /\ UNCHANGED <<cfgVars, fmtVars, bindVars, notified, done_, batch, dtorVars, prodVars>>

\* while (!queue.empty()) { stream << front; pop_front } stream << std::flush;
Drain(d) ==
    LET s == wstream[d]
        w == sink[s] \o msgsOf(queue[d])
    IN
    /\ wpc[d] = "drain"
    /\ mtx[d] = d
    /\ sink' = [sink EXCEPT ![s] = w]
    /\ flushed' = [flushed EXCEPT ![s] = flushedAfter(s, Len(w), TRUE)]
    /\ queue' = [queue EXCEPT ![d] = <<>>]
    /\ mtx' = [mtx EXCEPT ![d] = "free"]
    /\ wpc' = [wpc EXCEPT ![d] = "terminated"]
    /\ UNCHANGED <<cfgVars, fmtVars, bindVars, notified, done_, batch, dtorVars, prodVars>>

(***************************************************************************)
(* LCBLog::~LCBLog (lcblog.cpp)                                            *)
(***************************************************************************)

\* done_.store(true, std::memory_order_release);
DtorStore ==
    /\ dpc = "alive"
    /\ done_' = TRUE
    /\ quiet' = (\A p \in Producers : ppc[p] = "idle")
    /\ dpc' = "notify"
    /\ UNCHANGED <<cfgVars, fmtVars, bindVars, queue, mtx, notified, workerVars, sinkVars,
                   prodVars>>

\* outCv_.notify_all(); errCv_.notify_all();
DtorNotify ==
    /\ dpc = "notify"
    /\ notified' = [d \in Destination |-> (wpc[d] = "sleep") \/ notified[d]]
    /\ dpc' = "joinOut"
    /\ UNCHANGED <<cfgVars, fmtVars, bindVars, queue, mtx, done_, workerVars, sinkVars,
                   quiet, prodVars>>

\* Variant: the worker is not waited for.
DtorDetachOut ==
    /\ dpc = "joinOut"
    /\ dpc' = "joinErr"
    /\ UNCHANGED <<cfgVars, fmtVars, bindVars, queue, mtx, notified, done_, workerVars,
                   sinkVars, quiet, prodVars>>

\* if (outWorker_.joinable()) outWorker_.join();
DtorJoinOut ==
    /\ dpc = "joinOut"
    /\ wpc["Out"] = "terminated"
    /\ dpc' = "joinErr"
    /\ UNCHANGED <<cfgVars, fmtVars, bindVars, queue, mtx, notified, done_, workerVars,
                   sinkVars, quiet, prodVars>>

\* if (errWorker_.joinable()) errWorker_.join();  then the destructor returns
DtorJoinErr ==
    /\ dpc = "joinErr"
    /\ wpc["Err"] = "terminated"
    /\ dpc' = "returned"
    /\ UNCHANGED <<cfgVars, fmtVars, bindVars, queue, mtx, notified, done_, workerVars,
                   sinkVars, quiet, prodVars>>

ProducerSteps ==
    \/ \E p \in Producers : Format(p)
    \/ \E p \in Producers : Lock(p)
    \/ \E p \in Producers : Push(p)

\* the steps of workerLoop's main loop
LoopSteps ==
    \/ \E d \in Destination : Test(d)
    \/ \E d \in Destination : WaitFor(d)
    \/ \E d \in Destination : Block(d)
    \/ \E d \in Destination : Wake(d)
    \/ \E d \in Destination : Timeout(d)
    \/ \E d \in Destination, e \in BOOLEAN : Write(d, e)

\* the steps of workerLoop after its main loop
ExitSteps ==
    \/ \E d \in Destination : DrainLock(d)
    \/ \E d \in Destination : Drain(d)

WorkerSteps == LoopSteps \/ ExitSteps

DtorSteps ==
    \/ DtorStore
    \/ DtorNotify
    \/ DtorJoinOut
    \/ DtorJoinErr

(***************************************************************************)
(* Spec: the delivery engine.  Two producers call log at levels on both    *)
(* sides of the default threshold and of the routing boundary, against     *)
(* both workers and the destructor.                                        *)
(***************************************************************************)
CoreLevels == {DEBUG, INFO, ERROR}

Next ==
    \/ \E p \in Producers, l \in CoreLevels : log(p, l)
    \/ ProducerSteps
    \/ WorkerSteps
    \/ DtorSteps

Spec == Init /\ [][Next]_vars

(***************************************************************************)
(* SpecOne: the same engine driven by a single producer thread, so that    *)
(* the order of the calls is the order of their ids.                       *)
(***************************************************************************)
NextOne ==
    \/ \E l \in CoreLevels : log("p1", l)
    \/ ProducerSteps
    \/ WorkerSteps
    \/ DtorSteps

SpecOne == Init /\ [][NextOne]_vars

(***************************************************************************)
(* SpecCfg: the threshold during the logger's lifetime.  setLogLevel       *)
(* installs any threshold and one producer calls log at any level, at most *)
(* one call more than there were setter calls; the workers run their main  *)
(* loop.                                                                   *)
(***************************************************************************)
NextCfg ==
    \/ \E l \in LogLevel : setLogLevel(l)
    \/ \E l \in LogLevel : ncalls <= sets /\ log("p1", l)
    \/ ProducerSteps
    \/ LoopSteps

SpecCfg == Init /\ [][NextCfg]_vars

(***************************************************************************)
(* SpecApi: the three entry points.  One producer makes MaxApiCalls calls  *)
(* through logS and logE at any level, under the default threshold.        *)
(***************************************************************************)
NextApi ==
    \/ \E l \in LogLevel : ncalls < MaxApiCalls /\ logS("p1", l)
    \/ \E l \in LogLevel : ncalls < MaxApiCalls /\ logE("p1", l)
    \/ ProducerSteps
    \/ WorkerSteps
    \/ DtorSteps

SpecApi == Init /\ [][NextApi]_vars

(***************************************************************************)
(* SpecBound: the engine of a logger constructed on any pair of streams.   *)
(***************************************************************************)
SpecBound == InitBound /\ [][Next]_vars

\* SpecBoundOne: the same with a single producer thread.
SpecBoundOne == InitBound /\ [][NextOne]_vars

(***************************************************************************)
(* SpecSet: both setters during the logger's lifetime.  setLogLevel and    *)
(* enableTimestamps are called between and during the MaxCfgCalls log      *)
(* calls of one producer; the workers run their main loop.                 *)
(***************************************************************************)
SetLevels == {DEBUG, ERROR}

NextSet ==
    \/ \E l \in SetLevels : setLogLevel(l)
    \/ \E e \in BOOLEAN : enableTimestamps(e)
    \/ \E l \in CoreLevels : ncalls < MaxCfgCalls /\ log("p1", l)
    \/ ProducerSteps
    \/ LoopSteps

SpecSet == Init /\ [][NextSet]_vars

(***************************************************************************)
(* SpecLvl: level values outside the enumeration.  LogLevel is an unscoped *)
(* enumeration, so a caller can pass any integer converted to it; in       *)
(* level >= logLevel and level >= ERROR both operands are promoted to int  *)
(* and compared as integers.  One producer calls log with the values next  *)
(* below DEBUG and next above FATAL, and with FATAL, under any threshold.  *)
(***************************************************************************)
OutOfRange == {DEBUG - 1, FATAL + 1}

NextLvl ==
    \/ \E l \in LogLevel : setLogLevel(l)
    \/ \E l \in OutOfRange \cup {FATAL} : log("p1", l)
    \/ ProducerSteps
    \/ LoopSteps

SpecLvl == Init /\ [][NextLvl]_vars

(***************************************************************************)
(* SpecMT: threads logging to one destination (threadSafetyTest of         *)
(* main.cpp).  Two producers log at INFO concurrently, one through log and *)
(* one through logS, so that a record's entry point tells its producer.    *)
(***************************************************************************)
NextMT ==
    \/ log("p1", INFO)
    \/ logS("p2", INFO)
    \/ ProducerSteps
    \/ WorkerSteps
    \/ DtorSteps

SpecMT == Init /\ [][NextMT]_vars

(***************************************************************************)
(* SpecLock: the configuration and its mutex.  A thread calls setLogLevel  *)
(* or enableTimestamps, seen as its two steps, while a producer calls log  *)
(* and the workers run their main loop.                                    *)
(***************************************************************************)
NextLock ==
    \/ \E l \in SetLevels : SetterLock("setLogLevel", l)
    \/ \E e \in BOOLEAN : SetterLock("enableTimestamps", e)
    \/ SetterAssign
    \/ \E l \in CoreLevels : log("p1", l)
    \/ ProducerSteps
    \/ LoopSteps

SpecLock == Init /\ [][NextLock]_vars

(***************************************************************************)
(* SpecFair: SpecOne with the scheduling the platform provides.  Every     *)
(* thread that can take a step eventually takes one, and a wait_for that   *)
(* is not notified returns when flushInterval_ has elapsed.                *)
(***************************************************************************)
WorkerStep(d) ==
    \/ Test(d)
    \/ WaitFor(d)
    \/ Block(d)
    \/ Wake(d)
    \/ Timeout(d)
    \/ \E e \in BOOLEAN : Write(d, e)
    \/ DrainLock(d)
    \/ Drain(d)

ProducerStep(p) == Format(p) \/ Lock(p) \/ Push(p)

Fairness ==
    /\ \A d \in Destination : WF_vars(WorkerStep(d))
    /\ \A p \in Producers : WF_vars(ProducerStep(p))
    /\ WF_vars(DtorSteps)

SpecFair == SpecOne /\ Fairness

(***************************************************************************)
(* SpecLoaded: the engine observed from a moment of its lifetime at which  *)
(* one ERROR record, logged before, waits in the error queue and both      *)
(* workers are about to test their loop condition.  The MaxCalls calls of  *)
(* one producer that follow can then overflow the standard queue while the *)
(* error queue is not empty.  The earlier record has the id 0.             *)
(***************************************************************************)
EarlierEntry ==
    [dest |-> destOf(ERROR),
     msg |-> [id |-> 0, level |-> ERROR, stamped |-> FALSE, via |-> "log"]]

InitLoaded ==
    /\ logLevel = INFO
    /\ printTimestamps = FALSE
    /\ out = "cout"
    /\ err = "cerr"
    /\ wstream = [d \in Destination |-> workerStream(d, "cout", "cerr")]
    /\ unitbuf = {"cout", "cerr"}
    /\ queue = [d \in Destination |->
                  IF d = EarlierEntry.dest THEN <<EarlierEntry>> ELSE <<>>]
    /\ mtx = [d \in Destination |-> "free"]
    /\ notified = [d \in Destination |-> FALSE]
    /\ done_ = FALSE
    /\ wpc = [d \in Destination |-> "test"]
    /\ batch = [d \in Destination |-> <<>>]
    /\ sink = [s \in Streams |-> <<>>]
    /\ flushed = [s \in Streams |-> 0]
    /\ dpc = "alive"
    /\ quiet = FALSE
    /\ ppc = [p \in Producers |-> "idle"]
    /\ plocal = [p \in Producers |-> NoLocal]
    /\ ncalls = 0
    /\ verdict = [i \in 1..MaxCalls |-> NoVerdict]
    /\ enq = [d \in Destination |->
                IF d = EarlierEntry.dest THEN <<EarlierEntry.msg.id>> ELSE <<>>]
    /\ evicted = [d \in Destination |-> 0]
    /\ sets = 0
    /\ logMutex = "free"
    /\ setter = NoSetter
    /\ lastSet = DefaultCfg
    /\ began = [i \in 1..MaxCalls |-> NoBegan]
    /\ FmtIdle

SpecLoaded == InitLoaded /\ [][NextOne]_vars

(***************************************************************************)
(* SpecAlive: the logger during its lifetime, the destructor not called.   *)
(* One producer logs; the workers run their main loop.  Every thread that  *)
(* can take a step eventually takes one, but nothing is assumed of the     *)
(* timer: a wait_for may stay blocked as long as it is not notified.       *)
(***************************************************************************)
NextAlive ==
    \/ \E l \in CoreLevels : log("p1", l)
    \/ ProducerSteps
    \/ LoopSteps

\* the steps of a worker that do not depend on flushInterval_ elapsing
UntimedStep(d) ==
    \/ Test(d)
    \/ WaitFor(d)
    \/ Block(d)
    \/ Wake(d)
    \/ \E e \in BOOLEAN : Write(d, e)

FairnessAlive ==
    /\ \A d \in Destination : WF_vars(UntimedStep(d))
    /\ \A p \in Producers : WF_vars(ProducerStep(p))

SpecAlive == Init /\ [][NextAlive]_vars /\ FairnessAlive

(***************************************************************************)
(* SpecLife: every thread of the logger's lifetime.  A thread calls        *)
(* setLogLevel(WARN), seen as its two steps; a producer makes MaxApiCalls  *)
(* log calls, to either queue; both workers run, and the destructor is     *)
(* called at any moment.                                                   *)
(***************************************************************************)
\* one level routed to each queue
LifeLevels == {INFO, ERROR}

NextLife ==
    \/ SetterLock("setLogLevel", WARN)
    \/ SetterAssign
    \/ \E l \in LifeLevels : ncalls < MaxApiCalls /\ log("p1", l)
    \/ ProducerSteps
    \/ WorkerSteps
    \/ DtorSteps

SpecLife == Init /\ [][NextLife]_vars

(***************************************************************************)
(* SpecStamp: timestamped records of two threads.  enableTimestamps(true)  *)
(* is called before the first log call; two producers then log at INFO,    *)
(* one through log and one through logS, MaxApiCalls calls in all, each a  *)
(* message of one line; between two readings of the clock no time or one   *)
(* millisecond passes.  The workers run their main loop.                   *)
(***************************************************************************)
StampTicks == {0, 1}

NextStamp ==
    \/ ncalls = 0 /\ enableTimestamps(TRUE)
    \/ ncalls < MaxApiCalls /\ log("p1", INFO)
    \/ ncalls < MaxApiCalls /\ logS("p2", INFO)
    \/ \E p \in Producers, tick \in StampTicks : FormatAt(p, tick)
    \/ \E p \in Producers : Lock(p)
    \/ \E p \in Producers : Push(p)
    \/ LoopSteps

SpecStamp == Init /\ [][NextStamp]_vars

(***************************************************************************)
(* SpecUntimed: SpecOne with every thread scheduled fairly and nothing     *)
(* assumed of the timer: the worker's steps that do not depend on          *)
(* flushInterval_ elapsing, its final drain, the producer and the          *)
(* destructor each take a step when they can; a wait_for may stay blocked  *)
(* as long as it is not notified.                                          *)
(***************************************************************************)
FairnessUntimed ==
    /\ \A d \in Destination : WF_vars(UntimedStep(d) \/ DrainLock(d) \/ Drain(d))
    /\ \A p \in Producers : WF_vars(ProducerStep(p))
    /\ WF_vars(DtorSteps)

SpecUntimed == SpecOne /\ FairnessUntimed

(***************************************************************************)
(* Text.  A std::string is the sequence of its characters, each a string   *)
(* of length one.  Character classes are those of the "C" locale.          *)
(***************************************************************************)

\* std::isspace / the regex class \s: space, \t, \n, \f, \r (and \v, which
\* has no notation here)
isspace(c) == c \in {" ", "\t", "\n", "\f", "\r"}

Digits == <<"0", "1", "2", "3", "4", "5", "6", "7", "8", "9">>

Letters ==
    {"a", "b", "c", "d", "e", "f", "g", "h", "i", "j", "k", "l", "m", "n", "o",
     "p", "q", "r", "s", "t", "u", "v", "w", "x", "y", "z", "A", "B", "C", "D",
     "E", "F", "G", "H", "I", "J", "K", "L", "M", "N", "O", "P", "Q", "R", "S",
     "T", "U", "V", "W", "X", "Y", "Z"}

\* std::isalnum
isalnum(c) == c \in Letters \/ \E i \in 1..10 : Digits[i] = c

\* std::ispunct: the printable characters that are neither alphanumeric nor
\* space (all but the grave accent, which has no notation here)
ispunct(c) ==
    c \in {"!", "\"", "#", "$", "%", "&", "'", "(", ")", "*", "+", ",", "-", ".",
           "/", ":", ";", "<", "=", ">", "?", "@", "[", "\\", "]", "^", "_", "{",
           "|", "}", "~"}

\* the strings of at most n characters over an alphabet
Strings(alphabet, n) == UNION {[1..k -> alphabet] : k \in 0..n}

(***************************************************************************)
(* LCBLog::crush (lcblog.cpp): five std::regex_replace passes.  Each pass  *)
(* is written as the left-to-right scan regex_replace performs: at each    *)
(* position the leftmost match is replaced and the scan resumes after it.  *)
(***************************************************************************)
RECURSIVE dropLeading(_)
\* s without the longest run of whitespace it begins with (what \s+ consumes)
dropLeading(s) ==
    IF s # <<>> /\ isspace(Head(s)) THEN dropLeading(Tail(s)) ELSE s

RECURSIVE dropTrailing(_)
dropTrailing(s) ==
    IF s # <<>> /\ isspace(s[Len(s)])
       THEN dropTrailing(SubSeq(s, 1, Len(s) - 1))
       ELSE s

\* Variant: only the leading whitespace is trimmed (the pattern is ^\s+).
trimLeadingRe(s) == dropLeading(s)

\* trimRe  ^\s+|\s+$  replaced by ""
trimRe(s) == dropTrailing(dropLeading(s))

RECURSIVE wsPairsRe(_)
\* Variant: the pattern is \s\s, so each pair of whitespace becomes one space.
wsPairsRe(s) ==
    IF s = <<>> THEN <<>>
    ELSE IF Len(s) >= 2 /\ isspace(s[1]) /\ isspace(s[2])
            THEN <<" ">> \o wsPairsRe(SubSeq(s, 3, Len(s)))
            ELSE <<Head(s)>> \o wsPairsRe(Tail(s))

RECURSIVE wsRe(_)
\* wsRe  \s+  replaced by " "
wsRe(s) ==
    IF s = <<>> THEN <<>>
    ELSE IF isspace(Head(s))
            THEN <<" ">> \o wsRe(dropLeading(s))
            ELSE <<Head(s)>> \o wsRe(Tail(s))

RECURSIVE dropRunsBefore(_, _)
\* \s+(c) with c in set, replaced by c: a run of whitespace matches when the
\* character after the whole run is in set
dropRunsBefore(s, set) ==
    IF s = <<>> THEN <<>>
    ELSE IF isspace(Head(s)) /\ dropLeading(s) # <<>>
                             /\ Head(dropLeading(s)) \in set
            THEN <<Head(dropLeading(s))>>
                    \o dropRunsBefore(Tail(dropLeading(s)), set)
            ELSE <<Head(s)>> \o dropRunsBefore(Tail(s), set)

\* prePunctRe  \s+([,\.!?:;])  replaced by $1
prePunctRe(s) == dropRunsBefore(s, {",", ".", "!", "?", ":", ";"})

RECURSIVE parenOpenRe(_)
\* parenOpenRe  \(\s+  replaced by "("
parenOpenRe(s) ==
    IF s = <<>> THEN <<>>
    ELSE IF Head(s) = "("
            THEN <<"(">> \o parenOpenRe(dropLeading(Tail(s)))
            ELSE <<Head(s)>> \o parenOpenRe(Tail(s))

\* parenCloseRe  \s+\)  replaced by ")"
parenCloseRe(s) == dropRunsBefore(s, {")"})

\* void LCBLog::crush(std::string &s): the value s has when crush returns
crush(s) == parenCloseRe(parenOpenRe(prePunctRe(wsRe(trimRe(s)))))

(***************************************************************************)
(* Values and their text.  An argument of a log call is a string, an       *)
(* integer or a double; a double is kept in tenths (num = 10 * value), its *)
(* magnitude small enough for the default six significant digits.          *)
(***************************************************************************)
Str(cs) == [type |-> "str", chars |-> cs, num |-> 0]

IntVal(n) == [type |-> "int", chars |-> <<>>, num |-> n]

Dbl(tenths) == [type |-> "double", chars |-> <<>>, num |-> tenths]

Abs(n) == IF n < 0 THEN 0 - n ELSE n

RECURSIVE digitsOf(_)
\* the decimal digits of a natural number
digitsOf(n) ==
    IF n < 10 THEN <<Digits[n + 1]>>
              ELSE digitsOf(n \div 10) \o <<Digits[(n % 10) + 1]>>

\* os << n for an integer n
intText(n) == (IF n < 0 THEN <<"-">> ELSE <<>>) \o digitsOf(Abs(n))

\* os << val with the stream's default flags: a string is copied, an integer
\* is written in decimal, a double as by %g (no decimal point when integral)
streamText(val) ==
    IF val.type = "str" THEN val.chars
    ELSE IF val.type = "int" THEN intText(val.num)
    ELSE IF val.num % 10 = 0 THEN intText(val.num \div 10)
    ELSE (IF val.num < 0 THEN <<"-">> ELSE <<>>)
            \o digitsOf(Abs(val.num) \div 10) \o <<".">>
            \o digitsOf(Abs(val.num) % 10)

\* the toString lambda of logToStream: a double equal to its conversion to
\* long long is written with showpoint, fixed and precision 1
toString(val) ==
    IF val.type = "double" /\ val.num % 10 = 0
       THEN intText(val.num \div 10) \o <<".", "0">>
       ELSE streamText(val)

\* Variant: the previous token is examined before the next one.
shouldSkipSpacePrevFirst(prevArg, arg) ==
    LET prev == streamText(prevArg)
        curr == streamText(arg)
    IN  IF prev = <<>> THEN FALSE
        ELSE IF curr = <<>> \/ ispunct(curr[1]) THEN TRUE
        ELSE isspace(prev[Len(prev)])

\* Variant: no space is added after a token that ends in punctuation.
shouldSkipSpaceAfterPunct(prevArg, arg) ==
    LET prev == streamText(prevArg)
        curr == streamText(arg)
    IN  IF curr = <<>> \/ ispunct(curr[1]) THEN TRUE
        ELSE IF prev = <<>> THEN FALSE
        ELSE isspace(prev[Len(prev)]) \/ ispunct(prev[Len(prev)])

\* template<typename PrevT, typename T>
\* bool shouldSkipSpace(const PrevT& prevArg, const T& arg)
shouldSkipSpace(prevArg, arg) ==
    LET prev == streamText(prevArg)
        curr == streamText(arg)
    IN  IF curr = <<>> \/ ispunct(curr[1]) THEN TRUE
        ELSE IF prev = <<>> THEN FALSE
        ELSE IF isspace(prev[Len(prev)]) THEN TRUE
        ELSE FALSE

\* std::string logLevelToString(LogLevel level)
\* n written with std::setfill('0') and std::setw(w)
zeroPadded(n, w) ==
    [i \in 1..(IF Len(digitsOf(n)) < w THEN w - Len(digitsOf(n)) ELSE 0) |-> "0"]
        \o digitsOf(n)

\* std::string LCBLog::getStamp() when system_clock::now() is t milliseconds
\* after the epoch, for a t within the epoch's first day: put_time "%F %T" of
\* the UTC broken-down time, then '.', the milliseconds past the second in
\* three digits, and " UTC"
getStamp(t) ==
    <<"1", "9", "7", "0", "-", "0", "1", "-", "0", "1", " ">>
        \o zeroPadded((t \div 3600000) % 24, 2) \o <<":">>
        \o zeroPadded((t \div 60000) % 60, 2) \o <<":">>
        \o zeroPadded((t \div 1000) % 60, 2) \o <<".">>
        \o zeroPadded(t % 1000, 3) \o <<" ", "U", "T", "C">>

logLevelToString(level) ==
    CASE level = DEBUG -> <<"D", "E", "B", "U", "G">>
      [] level = INFO -> <<"I", "N", "F", "O">>
      [] level = WARN -> <<"W", "A", "R", "N">>
      [] level = ERROR -> <<"E", "R", "R", "O", "R">>
      [] level = FATAL -> <<"F", "A", "T", "A", "L">>
      [] OTHER -> <<"U", "N", "K", "N", "O", "W", "N">>

\* constexpr int LOG_LEVEL_WIDTH = 5;
LOG_LEVEL_WIDTH == 5

\* Variant: the level's name is not padded.
levelStrUnpadded(level) == logLevelToString(level)

\* levelStr: the level's name, padded with spaces when shorter than the width
levelStr(level) ==
    logLevelToString(level)
        \o [i \in 1..(IF Len(logLevelToString(level)) < LOG_LEVEL_WIDTH
                         THEN LOG_LEVEL_WIDTH - Len(logLevelToString(level))
                         ELSE 0) |-> " "]

\* stream << "[" << levelStr << "] "
levelTag(level) == <<"[">> \o levelStr(level) \o <<"]", " ">>

RECURSIVE combined(_, _)
\* the first n parts recombined: a space before part i unless i is the first
\* or shouldSkipSpace(parts[i - 1], parts[i])
combined(parts, n) ==
    IF n = 0 THEN <<>>
    ELSE combined(parts, n - 1)
            \o (IF n > 1 /\ ~shouldSkipSpace(Str(parts[n - 1]), Str(parts[n]))
                   THEN <<" ">> ELSE <<>>)
            \o parts[n]

\* position of the first line feed in a text, 0 if it has none
firstLineFeed(text) ==
    IF \E i \in 1..Len(text) : text[i] = "\n"
       THEN CHOOSE i \in 1..Len(text) :
               text[i] = "\n" /\ \A j \in 1..(i - 1) : text[j] # "\n"
       ELSE 0

RECURSIVE getlines(_)
\* the lines successive std::getline calls extract from a text
getlines(text) ==
    IF text = <<>> THEN <<>>
    ELSE IF firstLineFeed(text) = 0 THEN <<text>>
    ELSE <<SubSeq(text, 1, firstLineFeed(text) - 1)>>
            \o getlines(SubSeq(text, firstLineFeed(text) + 1, Len(text)))

RECURSIVE writeLinesTagFirst(_, _, _, _, _)
\* Variant: only the first line of a message carries the stamp and the tag.
writeLinesTagFirst(lines, n, level, ts, stamps) ==
    IF n = 0 THEN <<>>
    ELSE writeLinesTagFirst(lines, n - 1, level, ts, stamps)
            \o (IF n > 1 THEN <<"\n">>
                          ELSE (IF ts THEN stamps[n] \o <<"\t">> ELSE <<>>)
                                  \o levelTag(level))
            \o crush(lines[n])

RECURSIVE writeLines(_, _, _, _, _)
\* what the while loop has inserted after the first n lines
writeLines(lines, n, level, ts, stamps) ==
    IF n = 0 THEN <<>>
    ELSE writeLines(lines, n - 1, level, ts, stamps)
            \o (IF n > 1 THEN <<"\n">> ELSE <<>>)
            \o (IF ts THEN stamps[n] \o <<"\t">> ELSE <<>>)
            \o levelTag(level) \o crush(lines[n])

\* Variant: a message without lines gets no entry of its own.
logToStreamNoEmptyEntry(level, a, ts, stamps) ==
    LET parts == [i \in 1..Len(a) |-> toString(a[i])]
        lines == getlines(combined(parts, Len(parts)))
    IN  (IF lines # <<>>
            THEN writeLines(lines, Len(lines), level, ts, stamps)
            ELSE <<>>)
           \o <<"\n">>

\* void LCBLog::logToStream(std::ostream& stream, LogLevel level, T&& t,
\* Args&&... args): the text inserted into stream.  a is the argument list,
\* ts the value of printTimestamps, stamps[k] what the k-th getStamp() returns.
logToStream(level, a, ts, stamps) ==
    LET parts == [i \in 1..Len(a) |-> toString(a[i])]
        lines == getlines(combined(parts, Len(parts)))
    IN  (IF lines # <<>>
            THEN writeLines(lines, Len(lines), level, ts, stamps)
            ELSE (IF ts THEN stamps[1] \o <<"\t">> ELSE <<>>) \o levelTag(level))
           \o <<"\n">>

\* log's entry->msg = std::move(oss.str()): the text of the entry whose
\* message is m, when the call passed the arguments a and its getStamp()
\* calls returned stamps
msgText(m, a, stamps) == logToStream(m.level, a, m.stamped, stamps)

RECURSIVE inserted(_, _, _, _)
\* stream << msg for the first n messages of ms
inserted(ms, n, a, stamps) ==
    IF n = 0 THEN <<>>
    ELSE inserted(ms, n - 1, a, stamps) \o msgText(ms[n], a, stamps)

(***************************************************************************)
(* SpecCrush: crush on its own.  The line is any string of at most         *)
(* MaxLineLen characters over whitespace, a letter, a punctuation mark of  *)
(* prePunctRe and the two parentheses; crush is called on it, and again on *)
(* its own result.                                                         *)
(***************************************************************************)
CrushChars == {" ", "\t", "a", ",", "(", ")"}

InitCrush ==
    /\ Constructed("cout", "cerr")
    /\ call = NoCall
    /\ stream = <<>>
    /\ line \in Strings(CrushChars, MaxLineLen)
    /\ crushed = <<line>>
    /\ clock = <<>>
    /\ fdone = FALSE
    /\ skip = <<>>
    /\ stampedAt = NoStamps

\* crush(line);  crushed: the line as given, then as each call left it
CallCrush ==
    /\ Len(crushed) < 3
    /\ line' = crush(line)
    /\ crushed' = Append(crushed, crush(line))
    /\ UNCHANGED <<cfgVars, call, stream, clock, fdone, skip, stampedAt,
                   bindVars, queue, mtx,
                   notified, done_, workerVars, sinkVars, dtorVars, prodVars>>

NextCrush == CallCrush

SpecCrush == InitCrush /\ [][NextCrush]_vars

(***************************************************************************)
(* SpecFmt: logToStream on its own, without timestamps.  The argument list *)
(* is either two strings of at most MaxPairLen characters together, over   *)
(* characters of every class shouldSkipSpace and crush tell apart, or at   *)
(* most MaxArgs values taken from words, punctuation tokens and numbers.   *)
(***************************************************************************)
TokChars == {"a", "1", " ", ".", ",", ";", "!", ":", ")", "]", "}", "("}

\* every way of cutting a string of at most MaxPairLen characters in two
PairLists ==
    {<<Str(SubSeq(s, 1, IF k < Len(s) THEN k ELSE Len(s))),
       Str(SubSeq(s, (IF k < Len(s) THEN k ELSE Len(s)) + 1, Len(s)))>> :
        s \in Strings(TokChars, MaxPairLen), k \in 0..MaxPairLen}

Values ==
    {Str(<<"F", "o", "o">>), Str(<<"W", "o", "r", "d">>), Str(<<"(">>),
     Str(<<")">>), Str(<<".">>), Str(<<":">>), Dbl(0), Dbl(31), IntVal(42)}

ValueLists == UNION {[1..k -> Values] : k \in 1..MaxArgs}

FmtLevels == {INFO, ERROR}

InitFmt ==
    /\ Constructed("cout", "cerr")
    /\ call \in [level : FmtLevels, args : PairLists \cup ValueLists]
    /\ stream = <<>>
    /\ line = <<>>
    /\ crushed = <<>>
    /\ clock = <<>>
    /\ fdone = FALSE
    /\ skip = <<>>
    /\ stampedAt = NoStamps

\* logToStream(stream, level, t, args...) on an empty stream
CallLogToStream ==
    /\ stream = <<>>
    /\ stream' = logToStream(call.level, call.args, printTimestamps, clock)
    /\ fdone' = TRUE
    /\ UNCHANGED <<cfgVars, call, line, crushed, clock, skip, stampedAt,
                   bindVars, queue, mtx,
                   notified, done_, workerVars, sinkVars, dtorVars, prodVars>>

NextFmt == CallLogToStream

SpecFmt == InitFmt /\ [][NextFmt]_vars

(***************************************************************************)
(* SpecOpen: logToStream on two strings of at most MaxPairLen characters   *)
(* together, over the three opening brackets, a closing one, a letter, a   *)
(* digit and the space.                                                    *)
(***************************************************************************)
OpenChars == {"(", "[", "{", ")", "a", "1", " "}

OpenLists ==
    {<<Str(SubSeq(s, 1, IF k < Len(s) THEN k ELSE Len(s))),
       Str(SubSeq(s, (IF k < Len(s) THEN k ELSE Len(s)) + 1, Len(s)))>> :
        s \in Strings(OpenChars, MaxPairLen), k \in 0..MaxPairLen}

InitOpen ==
    /\ Constructed("cout", "cerr")
    /\ call \in [level : FmtLevels, args : OpenLists]
    /\ stream = <<>>
    /\ line = <<>>
    /\ crushed = <<>>
    /\ clock = <<>>
    /\ fdone = FALSE
    /\ skip = <<>>
    /\ stampedAt = NoStamps

SpecOpen == InitOpen /\ [][NextFmt]_vars

(***************************************************************************)
(* SpecSkip: shouldSkipSpace on its own (testShouldSkipSpace of main.cpp). *)
(* The two tokens are two strings of at most MaxPairLen characters         *)
(* together, either of which may be empty, or two of the values of         *)
(* SpecFmt, numbers among them.                                            *)
(***************************************************************************)
ValuePairs == {<<v, w>> : v \in Values, w \in Values}

InitSkip ==
    /\ Constructed("cout", "cerr")
    /\ call \in [level : {INFO}, args : PairLists \cup ValuePairs]
    /\ stream = <<>>
    /\ line = <<>>
    /\ crushed = <<>>
    /\ clock = <<>>
    /\ fdone = FALSE
    /\ skip = <<>>
    /\ stampedAt = NoStamps

\* shouldSkipSpace(prev, curr) called with the two tokens
CallShouldSkipSpace ==
    /\ skip = <<>>
    /\ skip' = <<shouldSkipSpace(call.args[1], call.args[2])>>
    /\ UNCHANGED <<cfgVars, call, stream, line, crushed, clock, fdone, stampedAt,
                   bindVars,
                   queue, mtx, notified, done_, workerVars, sinkVars, dtorVars,
                   prodVars>>

NextSkip == CallShouldSkipSpace \/ CallLogToStream

SpecSkip == InitSkip /\ [][NextSkip]_vars

(***************************************************************************)
(* SpecRec: the whole record.  logToStream is called at any level of the   *)
(* enumeration on one string or two, of at most MaxPairLen characters      *)
(* together and with line feeds among them, after enableTimestamps was or  *)
(* was not called; the clock reads one of Times at the first getStamp()    *)
(* and advances by the same tick from one getStamp() to the next.          *)
(***************************************************************************)
RecChars == {"a", " ", ".", "\n"}

RecLists ==
    {<<Str(s)>> : s \in Strings(RecChars, MaxPairLen)}
        \cup {<<Str(SubSeq(s, 1, IF k < Len(s) THEN k ELSE Len(s))),
                Str(SubSeq(s, (IF k < Len(s) THEN k ELSE Len(s)) + 1, Len(s)))>> :
                 s \in Strings(RecChars, MaxPairLen), k \in 0..MaxPairLen}

\* clock readings, in milliseconds: 00:00:00.999 and 01:02:03.004
Times == {999, 3723004}

Ticks == {0, 1}

Clocks ==
    {[k \in 1..(MaxPairLen + 1) |-> getStamp(t + (k - 1) * d)] :
        t \in Times, d \in Ticks}

InitRec ==
    /\ Constructed("cout", "cerr")
    /\ call \in [level : LogLevel, args : RecLists]
    /\ stream = <<>>
    /\ line = <<>>
    /\ crushed = <<>>
    /\ clock \in Clocks
    /\ fdone = FALSE
    /\ skip = <<>>
    /\ stampedAt = NoStamps

NextRec ==
    \/ \E e \in BOOLEAN : ~fdone /\ enableTimestamps(e)
    \/ CallLogToStream

SpecRec == InitRec /\ [][NextRec]_vars

(***************************************************************************)
(* SpecLines: logToStream line by line, with enableTimestamps called by    *)
(* another thread at any moment of it.  The arguments and the clock are    *)
(* those of SpecRec; crushed holds the lines written so far and clock the  *)
(* readings of the getStamp() calls still to come.                         *)
(***************************************************************************)
\* the lines std::getline extracts from the recombined arguments of the call
callLines ==
    getlines(combined([i \in 1..Len(call.args) |-> toString(call.args[i])],
                      Len(call.args)))

\* if (printTimestamps) stream << getStamp() << "\t";
stampNow == IF printTimestamps THEN clock[1] \o <<"\t">> ELSE <<>>

InitLines ==
    /\ Constructed("cout", "cerr")
    /\ call \in [level : FmtLevels, args : RecLists]
    /\ stream = <<>>
    /\ line = <<>>
    /\ crushed = <<>>
    /\ clock \in Clocks
    /\ fdone = FALSE
    /\ skip = <<>>
    /\ stampedAt = NoStamps

\* one turn of while (std::getline(msgStream, line)): std::endl before every
\* line but the first, the stamp if printTimestamps is set at this moment,
\* crush(line), the tag and the line
WriteLine ==
    LET k == Len(crushed) IN
    /\ ~fdone
    /\ k < Len(callLines)
    /\ line' = crush(callLines[k + 1])
    /\ crushed' = Append(crushed, crush(callLines[k + 1]))
    /\ stream' = stream \o (IF k > 0 THEN <<"\n">> ELSE <<>>) \o stampNow
                    \o levelTag(call.level) \o crush(callLines[k + 1])
    /\ clock' = IF printTimestamps THEN Tail(clock) ELSE clock
    /\ UNCHANGED <<cfgVars, call, fdone, skip, stampedAt,
                   bindVars, queue, mtx, notified,
                   done_, workerVars, sinkVars, dtorVars, prodVars>>

\* getline finds no further line: the empty entry if nothing was printed,
\* then the final std::endl, and logToStream returns
EndOfLines ==
    /\ ~fdone
    /\ Len(crushed) = Len(callLines)
    /\ stream' = stream
                    \o (IF crushed = <<>> THEN stampNow \o levelTag(call.level)
                                          ELSE <<>>)
                    \o <<"\n">>
    /\ clock' = IF crushed = <<>> /\ printTimestamps THEN Tail(clock) ELSE clock
    /\ fdone' = TRUE
    /\ UNCHANGED <<cfgVars, call, line, crushed, skip, stampedAt,
                   bindVars, queue, mtx,
                   notified, done_, workerVars, sinkVars, dtorVars, prodVars>>

NextLines ==
    \/ \E e \in BOOLEAN : ~fdone /\ enableTimestamps(e)
    \/ WriteLine
    \/ EndOfLines

SpecLines == InitLines /\ [][NextLines]_vars

(***************************************************************************)
(* SpecML: messages of several lines through the engine (multiLineLogTest  *)
(* of main.cpp).  Every call of the run passes the same arguments, held in *)
(* call.args: a text of two lines, as one string or as two.  One producer  *)
(* logs at INFO through log and one at WARN through logS, both to the      *)
(* standard queue, MaxApiCalls calls in all; enableTimestamps(true) may be *)
(* called before the first log call.  The run lasts less than a            *)
(* millisecond: every getStamp() returns the same text.                    *)
(***************************************************************************)
TwoLineArgs ==
    {<<Str(<<"a", "\n", "b">>)>>, <<Str(<<"a">>), Str(<<"\n", "b">>)>>}

InitML ==
    /\ Constructed("cout", "cerr")
    /\ call \in [level : {INFO}, args : TwoLineArgs]
    /\ stream = <<>>
    /\ line = <<>>
    /\ crushed = <<>>
    /\ clock = [k \in 1..(MaxPairLen + 1) |-> getStamp(999)]
    /\ fdone = FALSE
    /\ skip = <<>>
    /\ stampedAt = NoStamps

NextML ==
    \/ ncalls = 0 /\ enableTimestamps(TRUE)
    \/ ncalls < MaxApiCalls /\ log("p1", INFO)
    \/ ncalls < MaxApiCalls /\ logS("p2", WARN)
    \/ ProducerSteps
    \/ LoopSteps

SpecML == InitML /\ [][NextML]_vars

(***************************************************************************)
(* Vocabulary of the properties                                            *)
(***************************************************************************)
Range(f) == {f[i] : i \in 1..Len(f)}

Ids(ms) == [i \in 1..Len(ms) |-> ms[i].id]

\* the ids of the records written so far by the worker of destination d
SinkIds(d) == Ids(sink[wstream[d]])

\* the ids of the records the worker of d has taken and not yet written
BatchIds(d) == Ids(batch[d])

\* the ids of the entries waiting in the queue of d
QueueIds(d) == Ids(msgsOf(queue[d]))

Distinct(f) == \A i, j \in 1..Len(f) : i # j => f[i] # f[j]

PosIn(f, x) == CHOOSE i \in 1..Len(f) : f[i] = x

\* a is b with some elements left out (b has no repetitions)
IsSubseq(a, b) ==
    /\ \A i \in 1..Len(a) : a[i] \in Range(b)
    /\ \A i, j \in 1..Len(a) : i < j => PosIn(b, a[i]) < PosIn(b, a[j])

LastN(f, n) == IF Len(f) <= n THEN f ELSE SubSeq(f, Len(f) - n + 1, Len(f))

Increasing(f) == \A i, j \in 1..Len(f) : i < j => f[i] < f[j]

Terminated(d) == wpc[d] = "terminated"

(***************************************************************************)
(* C1  FIFO per destination.  In every state, the records written to a     *)
(* destination's sink are, in order, a subsequence of the records appended *)
(* to that destination's queue: nothing is written twice, nothing out of   *)
(* enqueue order, across batches and the final drain; and what the worker  *)
(* still holds (batch, then queue) continues that order.                   *)
(***************************************************************************)
C1_FifoPerDestination ==
    \A d \in Destination :
        /\ Distinct(enq[d])
        /\ IsSubseq(SinkIds(d), enq[d])
        /\ IsSubseq(SinkIds(d) \o BatchIds(d) \o QueueIds(d), enq[d])

\* The worker has terminated having written two of the three records that
\* were enqueued, and not the first two: the sink is a proper subsequence.
C1_Witness ==
    /\ Terminated("Out")
    /\ Len(SinkIds("Out")) = 2
    /\ Len(enq["Out"]) = 3
    /\ SinkIds("Out") # SubSeq(enq["Out"], 1, 2)

(***************************************************************************)
(* C2  No loss and no duplication below capacity (single producer).  When  *)
(* the destructor has returned and no call was in progress when it began,  *)
(* and no queue evicted an entry (in particular when no queue ever reached *)
(* its capacity), each sink holds exactly the accepted calls routed to it, *)
(* once each, in the order the calls were made.                            *)
(***************************************************************************)
AcceptedFor(d) ==
    {i \in 1..ncalls : verdict[i].res = "pass" /\ destOf(verdict[i].level) = d}

C2_NoLossBelowCapacity ==
    (dpc = "returned" /\ quiet /\ \A d \in Destination : evicted[d] = 0)
        => \A d \in Destination :
              /\ Range(SinkIds(d)) = AcceptedFor(d)
              /\ Increasing(SinkIds(d))

C2_Witness ==
    /\ dpc = "returned"
    /\ quiet
    /\ \A d \in Destination : evicted[d] = 0
    /\ Len(SinkIds("Out")) = 2
    /\ Len(SinkIds("Err")) = 1

(***************************************************************************)
(* C3  Drop-oldest overflow.  When every push beyond the capacity-th found *)
(* the queue full (capacity + k records enqueued, k >= 1, while the worker *)
(* removed nothing), the k evicted records are the oldest k: what the      *)
(* worker holds or has written is exactly the last capacity records        *)
(* submitted, in submission order; before the worker takes anything they   *)
(* are the queue, and once it has terminated they are the sink.            *)
(***************************************************************************)
Overflowed(d) ==
    /\ evicted[d] >= 1
    /\ Len(enq[d]) = maxQueueSize_ + evicted[d]

C3_DropOldest ==
    \A d \in Destination :
        Overflowed(d) =>
            /\ SinkIds(d) \o BatchIds(d) \o QueueIds(d) = LastN(enq[d], maxQueueSize_)
            /\ Len(LastN(enq[d], maxQueueSize_)) = maxQueueSize_
            /\ Terminated(d) => SinkIds(d) = LastN(enq[d], maxQueueSize_)

C3_Witness ==
    /\ Overflowed("Out")
    /\ Terminated("Out")
    /\ Len(SinkIds("Out")) = maxQueueSize_

(***************************************************************************)
(* C4  Queue bound.  A queue never holds more than maxQueueSize_ entries;  *)
(* a push that finds it full removes exactly the front entry and appends   *)
(* the new one, any other push only appends; and a producer holding the    *)
(* queue's lock can always complete its push, whatever the queue's size.   *)
(***************************************************************************)
PushesAsClaimed(p) ==
    LET d == plocal[p].entry.dest
        e == plocal[p].entry
    IN  (ppc[p] = "push" /\ ppc'[p] # "push") =>
            queue'[d] = IF Len(queue[d]) = maxQueueSize_
                           THEN Append(Tail(queue[d]), e)
                           ELSE Append(queue[d], e)

C4_QueueBound ==
    /\ [](\A d \in Destination : Len(queue[d]) <= maxQueueSize_)
    /\ [](\A p \in Producers : ppc[p] = "push" => ENABLED Push(p))
    /\ [][\A p \in Producers : PushesAsClaimed(p)]_vars

C4_Witness ==
    \E d \in Destination : evicted[d] >= 1 /\ Len(queue[d]) = maxQueueSize_

(***************************************************************************)
(* C5  Shutdown drains fully.  When the destructor has returned and no log *)
(* call was in progress when it began, both queues and both batches are    *)
(* empty, everything written has been flushed, and a destination to which  *)
(* no more than maxQueueSize_ records were enqueued has all of them in its *)
(* sink, in enqueue order.                                                 *)
(***************************************************************************)
C5_ShutdownDrains ==
    (dpc = "returned" /\ quiet) =>
        \A d \in Destination :
            /\ queue[d] = <<>>
            /\ batch[d] = <<>>
            /\ flushed[wstream[d]] = Len(sink[wstream[d]])
            /\ Len(enq[d]) <= maxQueueSize_ => SinkIds(d) = enq[d]

C5_Witness ==
    /\ dpc = "returned"
    /\ quiet
    /\ Len(enq["Out"]) = maxQueueSize_
    /\ SinkIds("Out") = enq["Out"]
    /\ Len(enq["Err"]) = 1
    /\ SinkIds("Err") = enq["Err"]

(***************************************************************************)
(* C6  Shutdown terminates.  The destructor never returns before both      *)
(* workers have terminated; and once done_ is set (no log call begins      *)
(* after that), both workers eventually terminate and the destructor       *)
(* returns.                                                                *)
(***************************************************************************)
C6_ShutdownTerminates ==
    /\ [](dpc = "returned" => \A d \in Destination : Terminated(d))
    /\ done_ ~> (dpc = "returned")

C6_Witness ==
    /\ dpc = "returned"
    /\ \A d \in Destination : Terminated(d) /\ Len(sink[wstream[d]]) >= 1

(***************************************************************************)
(* C7  Threshold filtering.  Whatever threshold T is installed and         *)
(* whatever the level L of a log call, the call is accepted exactly when   *)
(* L >= T; an accepted call appends exactly one record (none before its    *)
(* push, one after), a filtered call appends none, notifies no worker and  *)
(* leaves both queues unchanged.                                           *)
(***************************************************************************)
Occurrences(i) ==
    Cardinality({x \in Destination \X (1..MaxCalls) :
                    x[2] <= Len(enq[x[1]]) /\ enq[x[1]][x[2]] = i})

InFlight(i) == \E p \in Producers : ppc[p] # "idle" /\ plocal[p].id = i

FilteredCallIsNoOp ==
    \A p \in Producers, l \in LogLevel :
        (log(p, l) /\ l < logLevel) => UNCHANGED <<queue, enq, notified, mtx, ppc>>

C7_ThresholdFiltering ==
    /\ [](\A i \in 1..ncalls :
            /\ verdict[i].res = IF verdict[i].level >= verdict[i].thr
                                   THEN "pass" ELSE "skip"
            /\ Occurrences(i) = IF verdict[i].res = "pass" /\ ~InFlight(i)
                                   THEN 1 ELSE 0)
    /\ [][FilteredCallIsNoOp]_vars

\* setLogLevel(WARN) first; then a call at INFO was filtered and a call at
\* WARN has put its one record in a queue.
C7_Witness ==
    /\ sets = 1
    /\ logLevel = WARN
    /\ verdict[1] = [level |-> INFO, thr |-> WARN, res |-> "skip"]
    /\ verdict[2] = [level |-> WARN, thr |-> WARN, res |-> "pass"]
    /\ Occurrences(1) = 0
    /\ Occurrences(2) = 1

(***************************************************************************)
(* C8  Routing by level.  A record of a call log(level, ...) is appended   *)
(* to the error queue when level >= ERROR and to the standard queue when   *)
(* level < ERROR, and to no other queue; the dest field of every queued    *)
(* entry names the queue that holds it.                                    *)
(***************************************************************************)
C8_RoutingByLevel ==
    /\ \A d \in Destination : \A i \in Range(enq[d]) :
          (verdict[i].level >= ERROR) <=> (d = "Err")
    /\ Range(enq["Out"]) \cap Range(enq["Err"]) = {}
    /\ \A d \in Destination : \A k \in 1..Len(queue[d]) :
          /\ queue[d][k].dest = d
          /\ (queue[d][k].msg.level >= ERROR) <=> (d = "Err")

\* After setLogLevel(DEBUG), a DEBUG record is in the standard queue's history
\* and an ERROR record waits in the error queue.
C8_Witness ==
    /\ verdict[1].level = DEBUG
    /\ 1 \in Range(enq["Out"])
    /\ verdict[2].level = ERROR
    /\ QueueIds("Err") = <<2>>

(***************************************************************************)
(* C9  Explicit-destination aliases.  A record submitted through logE is   *)
(* placed on the error pipeline and a record submitted through logS on the *)
(* standard pipeline, whatever its level.                                  *)
(***************************************************************************)
C9_AliasRouting ==
    \A d \in Destination : \A k \in 1..Len(queue[d]) :
        /\ queue[d][k].msg.via = "logE" => d = "Err"
        /\ queue[d][k].msg.via = "logS" => d = "Out"

(***************************************************************************)
(* C10  Sinks bound at construction.  Every record of the standard         *)
(* destination is written to the stream given to the constructor as        *)
(* outStream, every record of the error destination to the one given as    *)
(* errStream, and the workers write to no other stream.                    *)
(***************************************************************************)
BoundStream(d) == IF d = "Out" THEN out ELSE err

C10_SinksBound ==
    /\ \A s \in Streams : sink[s] # <<>> => s \in {out, err}
    /\ \A d \in Destination : \A s \in Streams : \A k \in 1..Len(sink[s]) :
          sink[s][k].id \in Range(enq[d]) => s = BoundStream(d)

(***************************************************************************)
(* C11  Producers are never delayed by sink I/O.  No step of a log call    *)
(* inserts into or flushes a stream, and every step of a worker that       *)
(* inserts into or flushes its stream is taken while the worker does not   *)
(* hold its queue's mutex: entries are moved out under the lock and        *)
(* written only after the lock is released.                                *)
(***************************************************************************)
SinkTouched(st) == sink'[st] # sink[st] \/ flushed'[st] # flushed[st]

C11_NoSinkIoUnderLock ==
    [][\A d \in Destination :
          SinkTouched(wstream[d]) => (mtx[d] # d /\ ppc' = ppc)]_vars

(***************************************************************************)
(* C12  Configuration is read under its lock.  Every step of a log call    *)
(* that reads the threshold (the shouldLog test on entry) or the timestamp *)
(* flag (the formatter) is taken by a thread that holds logMutex, so that  *)
(* no such read happens while a setter holds logMutex for its write.       *)
(***************************************************************************)
ReadsConfiguration(p) == (\E l \in LogLevel : log(p, l)) \/ Format(p)

C12_ConfigReadUnderLock ==
    [][\A p \in Producers :
          ReadsConfiguration(p) => (logMutex = p /\ logMutex # "setter")]_vars

(***************************************************************************)
(* C13  Setters are prospective only.  A log call is filtered by the       *)
(* threshold of the last setLogLevel that returned before the call began,  *)
(* and, when no setter returns while the call is being formatted, its      *)
(* record carries timestamps exactly when the last enableTimestamps that   *)
(* returned before it began enabled them.  A setter changes neither queue, *)
(* no batch and no sink: the records already accepted keep their text and  *)
(* their order and, unless an overflow evicts them, all stay on their way  *)
(* to the sink whatever the threshold has become.                          *)
(***************************************************************************)
SetterStep ==
    logLevel' # logLevel \/ printTimestamps' # printTimestamps \/ sets' # sets

SetterFrame ==
    SetterStep => UNCHANGED <<queue, batch, sink, flushed, enq, evicted>>

\* the records of destination d: written, taken by the worker, or queued
Pipeline(d) == sink[wstream[d]] \o batch[d] \o msgsOf(queue[d])

C13_SettersProspective ==
    /\ [](\A i \in 1..ncalls :
            verdict[i].res = IF verdict[i].level >= began[i].cfg.level
                                THEN "pass" ELSE "skip")
    /\ [](\A d \in Destination :
            /\ \A k \in 1..Len(Pipeline(d)) :
                  LET m == Pipeline(d)[k] IN
                  /\ m.level = verdict[m.id].level
                  /\ began[m.id].steady => m.stamped = began[m.id].cfg.ts
            /\ Increasing(Ids(Pipeline(d)))
            /\ evicted[d] = 0 =>
                  \A i \in 1..ncalls :
                     (verdict[i].res = "pass" /\ ~InFlight(i)
                        /\ destOf(verdict[i].level) = d)
                     => i \in Range(Ids(Pipeline(d))))
    /\ [][SetterFrame]_vars

\* enableTimestamps(true) returned while the first record, formatted without
\* timestamps, was waiting in the queue; the record is unchanged and the
\* record of the next call carries the timestamps.
C13_Witness ==
    /\ sets = 1
    /\ printTimestamps
    /\ Len(queue["Out"]) = 2
    /\ began[queue["Out"][1].msg.id].steady
    /\ ~queue["Out"][1].msg.stamped
    /\ began[queue["Out"][2].msg.id].cfg.ts
    /\ queue["Out"][2].msg.stamped

(***************************************************************************)
(* C14  Invalid level fails safe.  Under every valid threshold, a log call *)
(* whose level is outside DEBUG..FATAL is accepted and, once the call has  *)
(* returned, has appended exactly one record, to the error queue, as a     *)
(* FATAL call does; it is never filtered out.                              *)
(***************************************************************************)
C14_InvalidLevelFailsSafe ==
    \A i \in 1..ncalls :
        (verdict[i].level \notin LogLevel /\ verdict[i].thr \in LogLevel) =>
            /\ verdict[i].res = "pass"
            /\ ~InFlight(i) => (Occurrences(i) = 1 /\ i \in Range(enq["Err"]))

(***************************************************************************)
(* C15  Thread safety with concurrent producers.  Threads log concurrently *)
(* to the standard destination.  When the destructor has returned (no call *)
(* was in progress when it began) and no record was evicted, as is the     *)
(* case when the records in total do not exceed the capacity, the sink     *)
(* holds exactly one record per call, each whole as its call formatted it, *)
(* and the records of each producer are in the order of its calls.         *)
(***************************************************************************)
RecordsOf(api) == SelectSeq(sink[wstream["Out"]], LAMBDA m : m.via = api)

C15_ConcurrentProducers ==
    (dpc = "returned" /\ quiet /\ evicted["Out"] = 0) =>
        /\ Len(sink[wstream["Out"]]) = ncalls
        /\ Range(SinkIds("Out")) = 1..ncalls
        /\ \A k \in 1..Len(sink[wstream["Out"]]) :
              LET m == sink[wstream["Out"]][k] IN
              m = [id |-> m.id, level |-> verdict[m.id].level,
                   stamped |-> FALSE, via |-> m.via]
        /\ \A api \in {"log", "logS"} : Increasing(Ids(RecordsOf(api)))

\* As many records as the queue can hold were submitted, by both producers,
\* and all are in the sink after shutdown.
C15_Witness ==
    /\ dpc = "returned"
    /\ quiet
    /\ ncalls = maxQueueSize_
    /\ Len(enq["Out"]) = maxQueueSize_
    /\ Len(sink[wstream["Out"]]) = maxQueueSize_
    /\ RecordsOf("log") # <<>>
    /\ RecordsOf("logS") # <<>>

(***************************************************************************)
(* C16  Sanitizer idempotence.  For every line (no line breaks), crush     *)
(* applied to the result of crush leaves it unchanged.                     *)
(***************************************************************************)
C16_CrushIdempotent == Len(crushed) = 3 => crushed[3] = crushed[2]

\* crush has rewritten a line (removing at least two characters) and was
\* then called on its own result
C16_Witness ==
    /\ Len(crushed) = 3
    /\ crushed[2] # <<>>
    /\ Len(crushed[2]) + 2 <= Len(crushed[1])

(***************************************************************************)
(* C17  Sanitizer postconditions.  For every input line, the result of     *)
(* crush neither begins nor ends with whitespace, has no two adjacent      *)
(* whitespace characters and no whitespace other than the space, no space  *)
(* immediately before , . ! ? : ; , none immediately after "(" and none    *)
(* immediately before ")".                                                 *)
(***************************************************************************)
Sanitized(r) ==
    /\ r # <<>> => (~isspace(r[1]) /\ ~isspace(r[Len(r)]))
    /\ \A i \in 1..Len(r) : isspace(r[i]) => r[i] = " "
    /\ \A i \in 1..(Len(r) - 1) :
          /\ ~(isspace(r[i]) /\ isspace(r[i + 1]))
          /\ ~(r[i] = " " /\ r[i + 1] \in {",", ".", "!", "?", ":", ";"})
          /\ ~(r[i] = "(" /\ r[i + 1] = " ")
          /\ ~(r[i] = " " /\ r[i + 1] = ")")

C17_CrushPostconditions == Len(crushed) >= 2 => Sanitized(crushed[2])

\* "( a\t ," has become "(a,": whitespace after "(", a tab, a run of
\* whitespace and a space before "," were all in the input
C17_Witness ==
    /\ Len(crushed) >= 2
    /\ crushed[1] = <<"(", " ", "a", "\t", ",">>
    /\ crushed[2] = <<"(", "a", ",">>

(***************************************************************************)
(* Vocabulary of the formatting properties                                 *)
(***************************************************************************)

\* logToStream has returned
Formatted == stream # <<>>

\* the body of a one-line record without timestamp: the text between the
\* level tag and the final line terminator
Body == SubSeq(stream, Len(levelTag(call.level)) + 1, Len(stream) - 1)

\* a call with exactly the two arguments prev and curr
PairCall == Len(call.args) = 2

PrevText == toString(call.args[1])

CurrText == toString(call.args[2])

(***************************************************************************)
(* C18  Bracketed value prose.  Formatting the arguments "Foo", "(", 0.0,  *)
(* ")" yields the body  Foo (0.0) : one space between the word and the     *)
(* opening bracket, none after the opening and none before the closing     *)
(* bracket.                                                                *)
(***************************************************************************)
FooArgs == <<Str(<<"F", "o", "o">>), Str(<<"(">>), Dbl(0), Str(<<")">>)>>

C18_BracketedValue ==
    (Formatted /\ call.args = FooArgs) =>
        Body = <<"F", "o", "o", " ", "(", "0", ".", "0", ")">>

(***************************************************************************)
(* C19  No space before closing punctuation.  Whatever the previous token  *)
(* is, the empty token included, shouldSkipSpace returns true when the     *)
(* next token begins with a closing bracket ) ] } or is one of the         *)
(* single-character tokens . , ; ! ; the two tokens are then joined        *)
(* without a space, so "Word", "." formats to the body  Word.              *)
(***************************************************************************)
ClosingNext ==
    /\ CurrText # <<>>
    /\ \/ CurrText[1] \in {")", "]", "}"}
       \/ CurrText \in {<<".">>, <<",">>, <<";">>, <<"!">>}

WordDot == <<Str(<<"W", "o", "r", "d">>), Str(<<".">>)>>

C19_NoSpaceBeforeClosing ==
    /\ (PairCall /\ ClosingNext) =>
          /\ shouldSkipSpace(call.args[1], call.args[2])
          /\ Formatted => Body = crush(PrevText \o CurrText)
    /\ (Formatted /\ call.args = WordDot) => Body = <<"W", "o", "r", "d", ".">>

C19_Witness ==
    /\ Formatted
    /\ call.args = WordDot
    /\ ClosingNext
    /\ Body = <<"W", "o", "r", "d", ".">>

(***************************************************************************)
(* C20  Space after punctuation or a value before a word.  When the        *)
(* previous token is not empty and ends in a character that is neither     *)
(* whitespace nor an opening bracket, and the next token begins with an    *)
(* alphanumeric character, shouldSkipSpace returns false and exactly one   *)
(* space separates the two tokens, so ":", "Word" formats to the body      *)
(* : Word                                                                  *)
(***************************************************************************)
WordAfter ==
    /\ PrevText # <<>>
    /\ ~isspace(PrevText[Len(PrevText)])
    /\ PrevText[Len(PrevText)] \notin {"(", "[", "{"}
    /\ CurrText # <<>>
    /\ isalnum(CurrText[1])

ColonWord == <<Str(<<":">>), Str(<<"W", "o", "r", "d">>)>>

C20_SpaceBeforeWord ==
    /\ (PairCall /\ WordAfter) =>
          /\ ~shouldSkipSpace(call.args[1], call.args[2])
          /\ Formatted => Body = crush(PrevText) \o <<" ">> \o crush(CurrText)
    /\ (Formatted /\ call.args = ColonWord) =>
          Body = <<":", " ", "W", "o", "r", "d">>

C20_Witness ==
    /\ Formatted
    /\ call.args = ColonWord
    /\ WordAfter
    /\ Body = <<":", " ", "W", "o", "r", "d">>

(***************************************************************************)
(* Vocabulary of the record properties                                     *)
(***************************************************************************)

\* the texts of the arguments of the call
ArgTexts == [i \in 1..Len(call.args) |-> toString(call.args[i])]

\* the prefix of the k-th physical line: the k-th stamp and a tab when
\* timestamps are enabled, nothing otherwise
StampPrefix(k) == IF printTimestamps THEN clock[k] \o <<"\t">> ELSE <<>>

\* "[" + the level's name, followed by spaces up to five characters + "] "
PaddedTag(name) ==
    <<"[">> \o name \o [i \in 1..(5 - Len(name)) |-> " "] \o <<"]", " ">>

\* number of line terminators in a text
Terminators(text) == Cardinality({i \in 1..Len(text) : text[i] = "\n"})

\* the lines of a text in which every line ends with a line terminator
PhysicalLines(text) ==
    LET ends == {i \in 1..Len(text) : text[i] = "\n"}
        \* the position of the k-th terminator, 0 for k = 0
        end(k) == IF k = 0 THEN 0
                  ELSE CHOOSE i \in ends : Cardinality({j \in ends : j < i}) = k - 1
    IN  [k \in 1..Cardinality(ends) |-> SubSeq(text, end(k - 1) + 1, end(k) - 1)]

(***************************************************************************)
(* C21  One visible record per call.  The text logToStream produces is     *)
(* never empty.  When the arguments hold no text at all (a single empty    *)
(* string, for example), it is one record made of the timestamp and a tab  *)
(* if timestamps are enabled, the level tag and an empty body, ended by    *)
(* one line terminator.                                                    *)
(***************************************************************************)
NoText == \A i \in 1..Len(call.args) : ArgTexts[i] = <<>>

C21_EmptyRecord ==
    fdone =>
        /\ stream # <<>>
        /\ NoText =>
              /\ stream = StampPrefix(1) \o levelTag(call.level) \o <<"\n">>
              /\ Terminators(stream) = 1

\* the empty string logged at INFO with timestamps enabled, at 00:00:00.999
C21_Witness ==
    /\ fdone
    /\ call = [level |-> INFO, args |-> <<Str(<<>>)>>]
    /\ printTimestamps
    /\ stream = getStamp(999) \o <<"\t", "[", "I", "N", "F", "O", " ", "]", " ", "\n">>

(***************************************************************************)
(* C23  Record layout.  At every level of the enumeration and for every    *)
(* argument list, the record ends with a line terminator and every         *)
(* physical line of it is: the timestamp and a tab exactly when timestamps *)
(* are enabled, then "[", the level's name padded with spaces to five      *)
(* characters, "] ", and the sanitized line.  There is one physical line   *)
(* per line of the message (one if the message has none), so the lines     *)
(* are separated by one terminator and one terminator ends the record.     *)
(***************************************************************************)
\* the lines of the message: the arguments' texts recombined and split
MessageLines == getlines(combined(ArgTexts, Len(ArgTexts)))

C23_RecordLayout ==
    (fdone /\ call.level \in LogLevel) =>
        /\ stream[Len(stream)] = "\n"
        /\ Len(PhysicalLines(stream)) =
              (IF MessageLines = <<>> THEN 1 ELSE Len(MessageLines))
        /\ Terminators(stream) = Len(PhysicalLines(stream))
        /\ \A k \in 1..Len(PhysicalLines(stream)) :
              LET body == IF MessageLines = <<>> THEN <<>>
                                                 ELSE crush(MessageLines[k])
              IN  /\ PhysicalLines(stream)[k] =
                        StampPrefix(k)
                           \o PaddedTag(logLevelToString(call.level)) \o body
                  /\ Sanitized(body)

\* "a" and "\na" logged at WARN with timestamps: the text "a \na", two lines
\* "a" and "a", stamped 01:02:03.004 and 01:02:03.005
C23_Witness ==
    /\ fdone
    /\ call = [level |-> WARN, args |-> <<Str(<<"a">>), Str(<<"\n", "a">>)>>]
    /\ printTimestamps
    /\ stream = getStamp(3723004)
                   \o <<"\t", "[", "W", "A", "R", "N", " ", "]", " ", "a", "\n">>
                   \o getStamp(3723005)
                   \o <<"\t", "[", "W", "A", "R", "N", " ", "]", " ", "a", "\n">>

(***************************************************************************)
(* C22  Multi-line records are atomic.  A message whose text is two        *)
(* non-empty segments separated by one line break makes one queue entry    *)
(* per call, and the entry holds exactly two physical lines, in order,     *)
(* each with its own level tag and, when timestamps are enabled, its own   *)
(* timestamp.  In the sink the two lines of a record are adjacent: the     *)
(* sink's lines are, record after record, the two lines of each record.    *)
(***************************************************************************)
TwoSegments ==
    /\ Len(MessageLines) = 2
    /\ MessageLines[1] # <<>>
    /\ MessageLines[2] # <<>>
    /\ Terminators(combined(ArgTexts, Len(ArgTexts))) = 1

\* the k-th physical line of the record of message m, whose k-th line is body
RecordLine(m, k, body) ==
    (IF m.stamped THEN clock[k] \o <<"\t">> ELSE <<>>)
       \o PaddedTag(logLevelToString(m.level)) \o body

\* what has been inserted into stream s, as text
SinkText(s) == inserted(sink[s], Len(sink[s]), call.args, clock)

C22_MultiLineAtomic ==
    TwoSegments =>
        LET first == crush(MessageLines[1])
            second == crush(MessageLines[2])
            TwoLines(m) == <<RecordLine(m, 1, first), RecordLine(m, 2, second)>>
        IN  /\ \A d \in Destination :
                  /\ Distinct(enq[d])
                  /\ \A i \in 1..Len(queue[d]) :
                        PhysicalLines(msgText(queue[d][i].msg, call.args, clock)) =
                           TwoLines(queue[d][i].msg)
            /\ \A s \in Streams :
                  PhysicalLines(SinkText(s)) =
                     [j \in 1..(2 * Len(sink[s])) |->
                         TwoLines(sink[s][(j + 1) \div 2])[2 - (j % 2)]]

\* two stamped records of different producers in std::cout
C22_Witness ==
    /\ TwoSegments
    /\ Len(sink["cout"]) = 2
    /\ sink["cout"][1].level = WARN
    /\ sink["cout"][2].level = INFO
    /\ sink["cout"][1].stamped
    /\ Len(call.args) = 2
    /\ PhysicalLines(SinkText("cout"))[3] =
          getStamp(999) \o <<"\t", "[", "I", "N", "F", "O", " ", "]", " ", "a">>

(***************************************************************************)
(* C24  Batch bound.  The local batch of a worker never holds more than    *)
(* batchSize_ entries.  In the main loop, a worker that takes entries from *)
(* its queue starts from an empty batch and takes at most batchSize_ of    *)
(* them, from the front, under one acquisition of the queue's mutex; and   *)
(* the batch is emptied only by writing all its entries to the sink, so    *)
(* every entry taken is written before any further entry is taken.         *)
(***************************************************************************)
\* the worker of d leaves wait_for and runs the move loop
Takes(d) == wpc[d] \in {"lock", "sleep"} /\ wpc'[d] = "write"

\* the worker of d writes its batch
Writes(d) == wpc[d] = "write" /\ wpc'[d] # "write"

BatchBound ==
    \A d \in Destination :
        /\ Len(batch'[d]) <= batchSize_
        /\ Takes(d) =>
              /\ batch[d] = <<>>
              /\ mtx[d] = "free" /\ mtx'[d] = "free"
              /\ msgsOf(queue[d]) = batch'[d] \o msgsOf(queue'[d])
        /\ Writes(d) =>
              /\ batch'[d] = <<>>
              /\ sink'[wstream[d]] = sink[wstream[d]] \o batch[d]
        /\ (~Takes(d) /\ ~Writes(d)) => batch'[d] = batch[d]

C24_BatchBound == [][BatchBound]_vars

\* a full batch has been taken and entries were left behind in the queue
C24_Witness ==
    /\ wpc["Out"] = "write"
    /\ Len(batch["Out"]) = batchSize_
    /\ queue["Out"] # <<>>

(***************************************************************************)
(* C25  Flush rule.  After writing a batch in its main loop, the worker    *)
(* flushes its stream if the batch holds batchSize_ entries or             *)
(* flushInterval_ has elapsed since its last flush, and only then: if      *)
(* neither holds, what the stream has flushed is as before (unless the     *)
(* stream flushes by itself on every insertion).  The drain after the loop *)
(* ends with a flush, so when a worker has terminated everything written   *)
(* to its stream has been flushed.                                         *)
(***************************************************************************)
FlushRule ==
    \A d \in Destination, elapsed \in BOOLEAN :
        Write(d, elapsed) =>
            IF Len(batch[d]) >= batchSize_ \/ elapsed
               THEN flushed'[wstream[d]] = Len(sink'[wstream[d]])
               ELSE wstream[d] \notin unitbuf =>
                       flushed'[wstream[d]] = flushed[wstream[d]]

AllFlushed(d) == flushed[wstream[d]] = Len(sink[wstream[d]])

Queued(d, i) == i \in Range(QueueIds(d))

Written(d, i) == i \in Range(SinkIds(d))

\* record i was appended to the queue of d and removed from it by a push
Evicted(d, i) ==
    /\ i \in Range(enq[d])
    /\ ~Queued(d, i)
    /\ i \notin Range(BatchIds(d))
    /\ ~Written(d, i)

PushNotifies ==
    \A p \in Producers :
        (ppc[p] = "push" /\ ppc'[p] = "idle") =>
            \A d \in Destination :
                IF d = plocal[p].entry.dest
                   THEN /\ wpc[d] = "sleep" => notified'[d]
                        /\ plocal[p].id \in Range(Ids(msgsOf(queue'[d])))
                   ELSE notified'[d] = notified[d]

C26_EventualDelivery ==
    /\ \A d \in Destination, i \in 1..MaxCalls :
          (~done_ /\ Queued(d, i)) ~> (~done_ /\ (Written(d, i) \/ Evicted(d, i)))
    /\ [][PushNotifies]_vars

\* the logger is alive, the worker is waiting again, and both records
\* appended to the standard queue are in its sink
C26_Witness ==
    /\ ~done_
    /\ dpc = "alive"
    /\ Len(enq["Out"]) = 2
    /\ SinkIds("Out") = enq["Out"]
    /\ wpc["Out"] = "sleep"

(***************************************************************************)
(* C27  Workers stop only on shutdown.  A worker that has left its main    *)
(* loop, and so a worker that has terminated, is found only when done_ is  *)
(* set.  As long as done_ is not set each worker is in its main loop:      *)
(* testing the loop condition, waiting, or taking and writing a batch.     *)
(***************************************************************************)
InMainLoop(d) == wpc[d] \in {"test", "lock", "block", "sleep", "write"}

LeftMainLoop(d) == wpc[d] \in {"drainlock", "drain", "terminated"}

C27_StopOnlyOnShutdown ==
    \A d \in Destination :
        /\ InMainLoop(d) \/ LeftMainLoop(d)
        /\ LeftMainLoop(d) => done_
        /\ ~done_ => InMainLoop(d)

\* both workers have terminated, after done_ was set; one of them had
\* written records before
C27_Witness ==
    /\ Terminated("Out")
    /\ Terminated("Err")
    /\ done_
    /\ Len(sink["cout"]) >= 1

(***************************************************************************)
(* C28  Empty queue at termination.  In the step by which a worker         *)
(* terminates, its queue becomes or stays empty, its batch is empty and    *)
(* everything inserted into its stream has been flushed; a terminated      *)
(* worker inserts nothing more, so the flush is its last operation on the  *)
(* sink.                                                                   *)
(***************************************************************************)
Terminates(d) == wpc[d] # "terminated" /\ wpc'[d] = "terminated"

TerminatesEmpty ==
    \A d \in Destination :
        /\ Terminates(d) =>
              /\ queue'[d] = <<>>
              /\ batch'[d] = <<>>
              /\ flushed'[wstream[d]] = Len(sink'[wstream[d]])
        /\ Terminated(d) =>
              /\ Terminated(d)'
              /\ batch'[d] = <<>>
              /\ sink'[wstream[d]] = sink[wstream[d]]
              /\ flushed'[wstream[d]] = flushed[wstream[d]]

C28_EmptyAtTermination == [][TerminatesEmpty]_vars

\* the worker of the standard queue has just drained two entries into a
\* stream that does not flush by itself, and terminated
C28_Witness ==
    /\ Terminated("Out")
    /\ dpc = "joinOut"
    /\ wstream["Out"] \notin unitbuf
    /\ queue["Out"] = <<>>
    /\ batch["Out"] = <<>>
    /\ Len(enq["Out"]) = 2
    /\ SinkIds("Out") = enq["Out"]
    /\ flushed[wstream["Out"]] = 2

(***************************************************************************)
(* C29  Pipeline independence.  No step changes both queues.  A queue is   *)
(* changed either by the worker of its own destination, which removes      *)
(* entries from its front into its own batch or sink, or by the push of a  *)
(* log call whose record is routed to that destination, overflow eviction  *)
(* included; the other queue and the other worker are left as they were.   *)
(***************************************************************************)
Other(d) == CHOOSE o \in Destination : o # d

\* the worker of d removes entries from the front of its queue
WorkerRemoves(d) ==
    /\ wpc'[d] # wpc[d]
    /\ ppc' = ppc
    /\ \E n \in 1..Len(queue[d]) :
          /\ queue'[d] = SubSeq(queue[d], n + 1, Len(queue[d]))
          /\ \/ batch'[d] = batch[d] \o msgsOf(SubSeq(queue[d], 1, n))
             \/ sink'[wstream[d]] =
                   sink[wstream[d]] \o msgsOf(SubSeq(queue[d], 1, n))

\* producer p appends its record to the queue of d, after dropping the
\* oldest entry if the queue was full
ProducerAppends(p, d) ==
    /\ ppc[p] = "push" /\ ppc'[p] = "idle"
    /\ destOf(plocal[p].level) = d
    /\ wpc' = wpc
    /\ \/ queue'[d] = Append(queue[d], plocal[p].entry)
       \/ /\ Len(queue[d]) = maxQueueSize_
          /\ queue'[d] = Append(Tail(queue[d]), plocal[p].entry)

QueueFrame ==
    \A d \in Destination :
        queue'[d] # queue[d] =>
            /\ queue'[Other(d)] = queue[Other(d)]
            /\ batch'[Other(d)] = batch[Other(d)]
            /\ wpc'[Other(d)] = wpc[Other(d)]
            /\ WorkerRemoves(d) \/ \E p \in Producers : ProducerAppends(p, d)

C29_PipelineIndependence == [][QueueFrame]_vars

\* the standard queue has overflowed while the earlier record was still
\* waiting in the error queue
C29_Witness ==
    /\ evicted["Out"] >= 1
    /\ Len(queue["Out"]) = maxQueueSize_
    /\ queue["Err"] = <<EarlierEntry>>

(***************************************************************************)
(* C30  No space after an opening bracket.  For two consecutive tokens of  *)
(* which the first ends in "(", "[" or "{", the body has no space between  *)
(* the last character of the first and the first character of the second:  *)
(* it is what the two texts joined without a separator are sanitized to.   *)
(***************************************************************************)
AfterOpening ==
    /\ PrevText # <<>>
    /\ PrevText[Len(PrevText)] \in {"(", "[", "{"}
    /\ CurrText # <<>>

C30_NoSpaceAfterOpening ==
    (fdone /\ PairCall /\ AfterOpening) => Body = crush(PrevText \o CurrText)

(***************************************************************************)
(* C31  Empty previous token.  When the previous token is the empty        *)
(* string, shouldSkipSpace returns true whatever the next token is: no     *)
(* separating space is inserted before the next token.                     *)
(***************************************************************************)
\* shouldSkipSpace has returned
Decided == skip # <<>>

C31_EmptyPrevSkips ==
    (Decided /\ PrevText = <<>>) => skip[1]

(***************************************************************************)
(* C32  Empty tokens next to a word or a colon.  shouldSkipSpace("", w)    *)
(* returns false for every word w, a token that begins with a letter or a  *)
(* digit, and shouldSkipSpace(":", "") returns false.                      *)
(***************************************************************************)
WordToken(text) == text # <<>> /\ isalnum(text[1])

C32_EmptyNextToWordOrColon ==
    Decided =>
        /\ (PrevText = <<>> /\ WordToken(CurrText)) => ~skip[1]
        /\ (PrevText = <<":">> /\ CurrText = <<>>) => ~skip[1]

(***************************************************************************)
(* C33  Queue accesses are lock-protected.  Every step of a thread that    *)
(* reads or writes a destination's queue is taken while that thread holds  *)
(* the queue's mutex: the producer's pop_front and push_back, the worker's *)
(* final drain, and the worker's reading of queue.empty() in the loop      *)
(* condition, which happens once done_ is set (before that the left        *)
(* operand of || decides).  The move loop takes the mutex in its own step. *)
(***************************************************************************)
\* the worker of d evaluates queue.empty() in the loop condition
ReadsEmpty(d) == done_ /\ Test(d)

QueueAccessLocked ==
    /\ \A p \in Producers : Push(p) => mtx[plocal[p].entry.dest] = p
    /\ \A d \in Destination : Drain(d) => mtx[d] = d
    /\ \A d \in Destination : ReadsEmpty(d) => mtx[d] = d

C33_QueueAccessLocked == [][QueueAccessLocked]_vars

(***************************************************************************)
(* C34  A log call racing with shutdown is not lost.  Every record that a  *)
(* log call appends to a queue is eventually in the sink of its            *)
(* destination unless the overflow rule evicted it, whenever the append    *)
(* happens: before done_ is set, after it, during the worker's final drain *)
(* or after the worker has terminated.                                     *)
(***************************************************************************)
C34_RacingLogDelivered ==
    \A d \in Destination, i \in 1..MaxCalls :
        Queued(d, i) ~> (Written(d, i) \/ Evicted(d, i))

(***************************************************************************)
(* C35  Shutdown wake-up does not depend on the timer.  Once done_ is set, *)
(* both workers terminate even if no wait_for ever times out: a worker     *)
(* waiting on its condition variable is woken by the destructor's          *)
(* notify_all.                                                             *)
(***************************************************************************)
C35_WakeUpWithoutTimer ==
    done_ ~> (\A d \in Destination : Terminated(d))

(***************************************************************************)
(* C36  No duplication and no fabrication.  In every execution, with       *)
(* overflow and shutdown, a record is in one place at a time: among what   *)
(* the worker of a destination has written, holds in its batch and has     *)
(* waiting in its queue no record occurs twice, and no record is in both   *)
(* sinks.  Every record in a sink was appended to that sink's queue by a   *)
(* log call that passed the threshold, and carries that call's level.      *)
(* A step that writes to a sink writes the whole batch or, in the final    *)
(* drain, the whole queue, after what the sink held, and leaves the place  *)
(* it wrote from empty.                                                    *)
(***************************************************************************)
\* the record m in the sink of d is the one a log call appended to d's queue
AppendedByCall(d, m) ==
    /\ m.id \in Range(enq[d])
    /\ verdict[m.id].res = "pass"
    /\ verdict[m.id].level = m.level
    /\ destOf(m.level) = d

WritesWhatItHeld ==
    \A d \in Destination :
        LET s == wstream[d] IN
        sink'[s] # sink[s] =>
            \/ /\ sink'[s] = sink[s] \o batch[d]
               /\ batch'[d] = <<>>
               /\ queue'[d] = queue[d]
            \/ /\ sink'[s] = sink[s] \o msgsOf(queue[d])
               /\ queue'[d] = <<>>
               /\ batch[d] = <<>>

C36_NoDuplicationNoFabrication ==
    /\ [](\A d \in Destination :
            /\ Distinct(SinkIds(d) \o BatchIds(d) \o QueueIds(d))
            /\ \A k \in 1..Len(sink[wstream[d]]) :
                  AppendedByCall(d, sink[wstream[d]][k]))
    /\ [](Range(SinkIds("Out")) \cap Range(SinkIds("Err")) = {})
    /\ [][WritesWhatItHeld]_vars

\* the destructor has returned after three records were appended to the
\* standard queue: the overflow rule evicted one, the two others were written
\* once each, from a batch or by the final drain, and nothing is left over
C36_Witness ==
    /\ dpc = "returned"
    /\ Len(enq["Out"]) = MaxCalls
    /\ evicted["Out"] = 1
    /\ Len(SinkIds("Out")) = MaxCalls - 1
    /\ queue["Out"] = <<>>
    /\ batch["Out"] = <<>>

(***************************************************************************)
(* C37  Deadlock freedom.  No thread ever holds more than one of the three *)
(* mutexes logMutex, outMtx_ and errMtx_; a worker waiting on its          *)
(* condition variable, or about to, holds no mutex other than the one it   *)
(* passed to the wait; whoever holds a mutex can take the step that        *)
(* releases it; hence in no state is every thread blocked on a lock.       *)
(***************************************************************************)
\* the threads that take locks: the producers, the two workers (named after
\* their destinations) and the thread that calls a setter
Threads == Producers \cup Destination \cup {"setter"}

\* the mutexes thread t holds
Held(t) ==
    {d \in Destination : mtx[d] = t}
        \cup (IF logMutex = t THEN {"logMutex"} ELSE {})

\* thread t is at a lock operation on a mutex that another thread holds
BlockedOnLock(t) ==
    \/ /\ t \in Producers
       /\ ppc[t] = "lock"
       /\ mtx[plocal[t].entry.dest] # "free"
    \/ /\ t \in Destination
       /\ wpc[t] \in {"lock", "drainlock"}
       /\ mtx[t] # "free"

C37_DeadlockFreedom ==
    /\ \A t \in Threads : Cardinality(Held(t)) <= 1
    /\ \A d \in Destination : wpc[d] \in {"block", "sleep"} => Held(d) \subseteq {d}
    /\ \A d \in Destination, p \in Producers : mtx[d] = p => ENABLED Push(p)
    /\ \A d \in Destination : mtx[d] = d => ENABLED (Block(d) \/ Drain(d))
    /\ logMutex = "setter" => ENABLED SetterAssign
    /\ \E t \in Threads : ~BlockedOnLock(t)

\* the three mutexes are held by three threads at once, the producer inside
\* its push section, the error worker about to block in wait_for and the
\* setter, while the standard worker is blocked on the mutex the producer holds
C37_Witness ==
    /\ mtx["Out"] = "p1"
    /\ mtx["Err"] = "Err"
    /\ logMutex = "setter"
    /\ BlockedOnLock("Out")

(***************************************************************************)
(* C38  Threshold change versus in-flight calls.  Once setLogLevel(T) has  *)
(* returned, no record of a level below T is appended to a queue: every    *)
(* push_back made after a setter returned appends a record whose level is  *)
(* at least the threshold last installed, also when the call had passed    *)
(* its threshold check before the setter ran.                              *)
(***************************************************************************)
\* producer p appends its record in this step
Appends(p) == ppc[p] = "push" /\ ppc'[p] = "idle"

NoAppendBelowThreshold ==
    \A p \in Producers :
        (sets >= 1 /\ Appends(p)) => plocal[p].level >= lastSet.level

C38_ThresholdBindsInFlight == [][NoAppendBelowThreshold]_vars

(***************************************************************************)
(* C39  Uniform timestamping within one record.  When logToStream has      *)
(* returned, the physical lines of its record all begin with a timestamp   *)
(* and a tab or none of them does, also when enableTimestamps was called   *)
(* by another thread while the record was being formatted.                 *)
(***************************************************************************)
\* a physical line carries the timestamp prefix: the tab that follows the
\* stamp is the only tab a line can hold, as crush leaves none in the body
Stamped(l) == \E i \in 1..Len(l) : l[i] = "\t"

C39_UniformStamping ==
    fdone =>
        \A j, k \in 1..Len(PhysicalLines(stream)) :
            Stamped(PhysicalLines(stream)[j]) = Stamped(PhysicalLines(stream)[k])

(***************************************************************************)
(* C40  Timestamp order in the sink.  With timestamps enabled and a        *)
(* monotonic clock, whatever the interleaving of the producers, the        *)
(* timestamps of the records written to one sink never decrease from one   *)
(* record to the next: records are appended to a queue in the order in     *)
(* which they were stamped.                                                *)
(***************************************************************************)
\* the clock's readings carried by a sequence of record ids, in its order
StampsOf(ids) == [k \in 1..Len(ids) |-> stampedAt[ids[k]]]

NonDecreasing(f) == \A j, k \in 1..Len(f) : j < k => f[j] <= f[k]

\* every record of the sequence carries a timestamp
AllStamped(ms) == \A k \in 1..Len(ms) : ms[k].stamped

C40_StampOrderInSink ==
    \A d \in Destination :
        AllStamped(sink[wstream[d]]) =>
            /\ NonDecreasing(StampsOf(SinkIds(d)))
            /\ NonDecreasing(StampsOf(enq[d]))

====
